---- MODULE Spec2Model ----
(***************************************************************************)
(* Job monitor: the two-stage cron pipeline of scripts/cron.js (main,      *)
(* lines 158-298) with its helpers normalizeUrl and RateLimiter.           *)
(*                                                                         *)
(* Spec    : runs of main() against the store (companies, job_posts).      *)
(*           The limiter's admission is a delay there; its state machine   *)
(*           is checked on its own in SpecRL.                              *)
(* SpecRL  : one caller issuing chatOnce requests through one RateLimiter. *)
(*                                                                         *)
(* Time is Date.now() in milliseconds, counted from an epoch chosen so     *)
(* that the values stay small; only differences of times are ever used.    *)
(***************************************************************************)
EXTENDS Integers, Sequences, FiniteSets, TLC

(* ------------------------------ bounds --------------------------------- *)

\* largest number of chunks one fetched text splits into
MaxChunks == 2
\* number of runs of main() in one behaviour
MaxRuns == 2
\* the clock stops after this many steps of one cooldown
MaxTicks == 2

\* number of chatOnce requests the caller of SpecRL issues
MaxRequests == 5

\* splitIntoTokenChunks: the longest text (in tokens), the largest context
\* window, prompt overhead and overlap
MaxTokens == 5
MaxWindow == 4
MaxOverhead == 2
MaxOverlap == 2
\* the iterations of the chunking loop that are followed
MaxPushed == MaxTokens + 1

\* normalizeUrl: the most leading "www." labels of a host
MaxWww == 2

(* --------------------------- program constants ------------------------- *)

\* cron.js:30-32  DEFAULT_CONTEXT_WINDOW, PROMPT_OVERHEAD_TOKENS,
\* CHUNK_OVERLAP_TOKENS
DefaultContextWindow == 8192
PromptOverheadTokens == 300
ChunkOverlapTokens == 100
\* cron.js:75  constructor defaults
DefaultMaxTokensPerMinute == 10000
DefaultMaxRequestsPerMinute == 30
DefaultMinIntervalMs == 2000
\* cron.js:87  the window: 60_000 ms
WindowMs == 60000
\* cron.js:105  the polling sleep of waitTurn
PollMs == 100

\* cron.js:181  Date.now() - 3_600_000
Cooldown == 3600000

\* last_scraped is null (types/index.ts: last_scraped?: string | null)
NULL == -1

StartTime == 2 * Cooldown
MaxTime   == StartTime + MaxTicks * Cooldown

\* the rows of the companies table, in the order of line 178 (two companies)
Companies    == {1, 2}
NumCompanies == Cardinality(Companies)

(* ------------------------------- URLs ---------------------------------- *)
(* A URL string is represented by the parts the WHATWG parser and the      *)
(* rewriting of normalizeUrl distinguish:                                  *)
(*   form  "http" / "https": an absolute URL with that scheme;             *)
(*         "rel": a string new URL() rejects (e.g. "/Jobs/2")              *)
(*   www   number of leading "www." host labels                            *)
(*   path  the path segments, <<>> for the root                            *)
(*   trail the path part of the string ends with "/"                       *)
(*   dup   the path holds repeated separators ("//")                       *)
(*   query, frag  a "?..." part, a "#..." part                             *)
(*   caps  the string holds upper-case letters                             *)
(*   pad   the string has leading or trailing white space                  *)
(***************************************************************************)
Url(form, www, path, trail, dup, query, frag, caps, pad) ==
    [form |-> form, www |-> www, host |-> "example.com", path |-> path,
     trail |-> trail, dup |-> dup, query |-> query, frag |-> frag,
     caps |-> caps, pad |-> pad]

\* cron.js:58-70
normalizeUrl(raw) ==
    IF raw.form = "rel"
    THEN \* catch: raw.trim().toLowerCase()
         [raw EXCEPT !.caps = FALSE, !.pad = FALSE]
    ELSE [form  |-> "https",                                  \* line 61, 66
          www   |-> IF raw.www > 0 THEN raw.www - 1 ELSE 0,   \* line 62: /^www\./i once
          host  |-> raw.host,
          path  |-> raw.path,
          trail |-> (raw.path = <<>>),                        \* line 65: root stays "/"
          dup   |-> FALSE,                                    \* line 65: /\/+/g
          query |-> FALSE,                                    \* line 63
          frag  |-> FALSE,                                    \* line 64
          caps  |-> FALSE,                                    \* line 66: toLowerCase
          pad   |-> FALSE]                                    \* line 60: trim

\* "http://Example.com/jobs/1/"
UrlA == Url("http", 0, <<"jobs", "1">>, TRUE, FALSE, FALSE, FALSE, TRUE, FALSE)
\* "https://www.example.com/jobs/1"
UrlB == Url("https", 1, <<"jobs", "1">>, FALSE, FALSE, FALSE, FALSE, FALSE, FALSE)
\* "https://www.www.example.com/jobs/1"
UrlC == Url("https", 2, <<"jobs", "1">>, FALSE, FALSE, FALSE, FALSE, FALSE, FALSE)

\* what the stage-1 model may answer for one chunk (cron.js:206-208):
\*   throw   chatOnce rejects with a provider or network error
\*   auth    chatOnce rejects with an authentication error (HTTP 401)
\*   text    an answer that does not start with "[" (parsed as "[]")
\*   badjson an answer that starts with "[" and is not valid JSON
\*   array   a JSON array of URL strings
\*   mixed   a JSON array of the URL strings urls followed by an element
\*           that is no string: forEach throws there (raw.trim is no function)
S1Reply(kind, urls) == [kind |-> kind, urls |-> urls]
\* the answers of a free world
S1FreeReplies ==
    { S1Reply("throw", <<>>), S1Reply("auth", <<>>), S1Reply("text", <<>>),
      S1Reply("badjson", <<>>),
      S1Reply("array", <<UrlA, UrlB>>), S1Reply("array", <<UrlC>>),
      S1Reply("mixed", <<UrlC>>) }
S1Replies == S1FreeReplies \cup { S1Reply("array", <<UrlA, UrlC>>) }

\* JSON objects are functions from the keys present to their values
EmptyObj == [k \in {} |-> ""]
ObjX  == [k \in {"title"} |-> "X"]
\* {"title": "X", "location": "L"}, {"title": "Y"}, {"title": null}
ObjXL == [k \in {"title", "location"} |-> IF k = "title" THEN "X" ELSE "L"]
ObjY  == [k \in {"title"} |-> "Y"]
ObjN  == [k \in {"title"} |-> "null"]
\* {"title": "U", "url": "https://example.com/other", "company_id": 2,
\*  "company_name": 2}: an object with the keys of the posting's identity
ObjU ==
    [k \in {"title", "url", "company_id", "company_name"} |->
        CASE k = "title" -> "U"
          [] k = "url"   -> Url("https", 0, <<"other">>, FALSE, FALSE, FALSE,
                                FALSE, FALSE, FALSE)
          [] OTHER       -> 2]

\* what the stage-2 model may answer for one chunk (cron.js:246-247)
S2Reply(kind, obj) == [kind |-> kind, obj |-> obj]
\* the answers of a free world
S2FreeReplies ==
    { S2Reply("throw", EmptyObj), S2Reply("auth", EmptyObj),
      S2Reply("text", EmptyObj), S2Reply("badjson", EmptyObj),
      S2Reply("object", ObjX) }
S2Replies ==
    S2FreeReplies \cup
    { S2Reply("object", ObjXL), S2Reply("object", ObjY), S2Reply("object", ObjN),
      S2Reply("object", ObjU) }

\* fetch(): it rejects, or the text splits into n chunks (n = 0: empty text)
Fetched(ok, n) == [ok |-> ok, n |-> n]
FetchResults == {Fetched(FALSE, 0)} \cup {Fetched(TRUE, n) : n \in 0..MaxChunks}

\* the normalized URLs the replies above lead to
NormUrls == { normalizeUrl(u) : u \in {UrlA, UrlB, UrlC} }

(* ------------------------------ state ---------------------------------- *)

VARIABLES
    now,         \* Date.now()
    companies,   \* table companies: id -> [last_scraped]
    job_posts,   \* table job_posts: the rows, in insertion order
    pc,          \* position of main(): idle, loop, fetch, stage1, page, stage2, notify, done, fatal
    runs,        \* runs of main() finished so far
    cutoff,      \* main: cutoff (as a time)
    snap,        \* main: the companies rows as read at line 178 (last_scraped)
    idx,         \* main: index of the company the for loop is at
    nChunks,     \* main: urlChunks.length / chunks.length
    chunkIdx,    \* main: index of the chunk the inner for loop is at
    jobUrls,     \* main: the Set jobUrls, in insertion order
    toProcess,   \* main: toProcess
    tpIdx,       \* main: index into toProcess
    assembled,   \* main: assembled
    newJobs,     \* main: newJobs
    mail,        \* what mailer.sendMail did in this run: none, sent, failed
    world,       \* the outside world when it is held fixed across runs
    ev,          \* history: per company, what this run did for it
    authAt,      \* history: index of the company at which the first auth error came, or 0
    storeAtStart,\* history: job_posts when this run started
    prevFull,    \* history: the run before reached its end and skipped no company
    limiter,     \* the RateLimiter object (cron.js:74-83)
    lpc,         \* position of the caller of chatOnce: idle, sleep, poll, admitted, sent
    tokensNeeded,\* waitTurn: tokensNeeded
    wake,        \* the time the pending setTimeout is due
    issued,      \* chatOnce calls started so far
    wsLog,       \* history: minuteStart at each of the last admissions
    chatLog,     \* history: what the current chatOnce call did, in order
    s1Log,       \* history: the answers to the stage-1 chunks of the company at hand
    callers,     \* concurrent chatOnce calls: caller -> [pc, need, wake]
    gap,         \* history: the smallest time between two consecutive records
    split,       \* one call of splitIntoTokenChunks: its arguments, its locals, its position
    nu,          \* calls of normalizeUrl: the arguments and the results
    api,         \* one request to the parse-jobs handler: its locals, the tables, its position
    chat,        \* the chatOnce calls of one run of main(): the call sites, the call at hand, its position
    ov,          \* two runs of main() that overlap: the shared table, each run's locals and position
    failed       \* history: <<company, url>> of the job pages whose fetch failed, in any run

\* main() and its limiter, and the functions and handlers modelled on
\* their own
mainVars == <<now, companies, job_posts, pc, runs, cutoff, snap, idx, nChunks,
              chunkIdx, jobUrls, toProcess, tpIdx, assembled, newJobs, mail,
              world, ev, authAt, storeAtStart, prevFull, s1Log, limiter, lpc,
              tokensNeeded, wake, issued, wsLog, chatLog, callers, gap>>
extVars == <<split, nu, api, chat, ov, failed>>

pipeVars == <<now, companies, job_posts, pc, runs, cutoff, snap, idx, nChunks,
              chunkIdx, jobUrls, toProcess, tpIdx, assembled, newJobs, mail,
              world, ev, authAt, storeAtStart, prevFull, s1Log>>

\* everything of main() but the clock
pipeRest == <<companies, job_posts, pc, runs, cutoff, snap, idx, nChunks,
              chunkIdx, jobUrls, toProcess, tpIdx, assembled, newJobs, mail,
              world, ev, authAt, storeAtStart, prevFull, s1Log, extVars>>

\* the concurrent callers of one limiter
ccVars == <<callers, gap>>

limVars == <<limiter, lpc, tokensNeeded, wake, issued, wsLog, chatLog, ccVars,
             extVars>>

(* --------------------------- the outside world ------------------------- *)
(* A free world answers every fetch, model call and write as it likes; it  *)
(* is explored for one run.  A fixed world answers as a function of what   *)
(* is asked, so that runs can be repeated on the same content and the same *)
(* model outputs; it is explored for MaxRuns runs.  In a fixed world       *)
(*   raw[c]     is what fetching company c's content gives,                *)
(*   s1[c, r]   is the stage-1 answer for company c, in the first run      *)
(*              (r = 1) and in the runs after it (r = 2),                  *)
(*   page       is what fetching a job page gives,                         *)
(*   s2[i]      is the stage-2 answer for the i-th chunk of a job page,    *)
(*   upsert     is what the store does with a write.                       *)

FreeWorld == [fixed |-> FALSE]

\* the companies query of line 178 fails or not
QueryAnswer(ok) == world.fixed => ok

\* the stage-2 side of a fixed world: no failure, or one kind of failure
Stage2Sides ==
    { [page |-> Fetched(TRUE, 1),  s2 |-> S2Reply("object", ObjX),    upsert |-> "done"],
      [page |-> Fetched(FALSE, 0), s2 |-> S2Reply("object", ObjX),    upsert |-> "done"],
      [page |-> Fetched(TRUE, 1),  s2 |-> S2Reply("throw", EmptyObj), upsert |-> "done"],
      [page |-> Fetched(TRUE, 1),  s2 |-> S2Reply("object", ObjX),    upsert |-> "error"],
      [page |-> Fetched(TRUE, 1),  s2 |-> S2Reply("object", ObjX),    upsert |-> "throw"] }

Worlds ==
    { [fixed |-> TRUE, raw |-> rr, s1 |-> ss,
       page |-> side.page, s2 |-> [i \in 1..MaxChunks |-> side.s2],
       upsert |-> side.upsert] :
      rr \in [Companies -> {Fetched(FALSE, 0), Fetched(TRUE, 1)}],
      ss \in [Companies \X {1, 2} ->
                {S1Reply("array", <<UrlA, UrlB>>), S1Reply("array", <<UrlC>>),
                 S1Reply("throw", <<>>)}],
      side \in Stage2Sides }

RawAnswer(c, r)   == world.fixed => r = world.raw[c]
S1Answer(c, r)    == IF world.fixed
                     THEN r = world.s1[<<c, IF runs = 0 THEN 1 ELSE 2>>]
                     ELSE r \in S1FreeReplies
\* node-fetch rejects a string that is no absolute URL
\* what fetching the page of u gives in the fixed world w: the same for
\* every page, or as w.pages says
PageOf(w, u)      == IF "pages" \in DOMAIN w THEN w.pages[u] ELSE w.page
PageAnswer(u, r)  == /\ u.form = "rel" => ~r.ok
                     /\ world.fixed => r = PageOf(world, u)
S2Answer(u, r)    == IF world.fixed THEN r = world.s2[chunkIdx]
                     ELSE r \in S2FreeReplies
UpsertAnswer(res) == world.fixed => res = world.upsert

(* ------------------------------ helpers -------------------------------- *)

Range(s) == { s[i] : i \in DOMAIN s }

\* a variant of line 203 that collects the URLs in an array (push)
SetAddPlain(s, x) == Append(s, x)

\* Set.prototype.add, keeping insertion order (cron.js:208)
SetAdd(s, x) == IF x \in Range(s) THEN s ELSE Append(s, x)

RECURSIVE AddAll(_, _)
\* arr.forEach(u => jobUrls.add(normalizeUrl(u)))  (cron.js:208)
AddAll(s, urls) ==
    IF urls = <<>> THEN s
    ELSE AddAll(SetAdd(s, normalizeUrl(Head(urls))), Tail(urls))

RECURSIVE Filter(_, _)
Filter(s, keep) ==
    IF s = <<>> THEN <<>>
    ELSE IF Head(s) \in keep THEN <<Head(s)>> \o Filter(Tail(s), keep)
         ELSE Filter(Tail(s), keep)

\* a variant of line 248 in which the first value of a key is kept
ObjectAssignKeep(target, source) ==
    [k \in DOMAIN target \cup DOMAIN source |->
        IF k \in DOMAIN target THEN target[k] ELSE source[k]]

\* Object.assign(target, source)  (cron.js:248, 254)
ObjectAssign(target, source) ==
    [k \in DOMAIN target \cup DOMAIN source |->
        IF k \in DOMAIN source THEN source[k] ELSE target[k]]

\* a variant of line 185 that compares with > instead of >=
RecentStrict(c) == snap[c] # NULL /\ snap[c] > cutoff

\* cron.js:185  skip when c.last_scraped && c.last_scraped >= cutoff
Recent(c) == snap[c] # NULL /\ snap[c] >= cutoff

\* a variant of line 221 without .eq('company_id', c.id)
SeenSetAnySource(c) ==
    { normalizeUrl(job_posts[i]["url"]) : i \in DOMAIN job_posts }

\* cron.js:221-222  the normalized urls of the rows stored for company c
SeenSet(c) ==
    { normalizeUrl(job_posts[i]["url"]) :
        i \in { j \in DOMAIN job_posts : job_posts[j]["company_id"] = c } }

\* cron.js:223
ToProcess(c) == Filter(jobUrls, Range(jobUrls) \ SeenSet(c))

HasKey(rows, r) ==
    \E i \in DOMAIN rows :
        rows[i]["company_id"] = r["company_id"] /\ rows[i]["url"] = r["url"]

\* a variant of line 262 that calls insert(row) instead of upsert
UpsertPlain(rows, r) == Append(rows, r)

\* a variant of line 262-265 without ignoreDuplicates: the stored row is
\* overwritten
UpsertOverwrite(rows, r) ==
    IF HasKey(rows, r)
    THEN [i \in DOMAIN rows |->
            IF rows[i]["company_id"] = r["company_id"] /\ rows[i]["url"] = r["url"]
            THEN r ELSE rows[i]]
    ELSE Append(rows, r)

\* cron.js:262-265  upsert(row, {onConflict: [company_id, url], ignoreDuplicates})
Upsert(rows, r) == IF HasKey(rows, r) THEN rows ELSE Append(rows, r)

\* cron.js:254-259
Identity(c, u) ==
    [k \in {"url", "company_id", "company_name", "seen_at"} |->
        CASE k = "url"          -> u
          [] k = "company_id"   -> c
          [] k = "company_name" -> c
          [] OTHER              -> now]

\* a variant of lines 216, 226 and 274 without .eq('id', c.id)
UpdateLastScrapedOfAll(c) == [x \in Companies |-> [last_scraped |-> now]]

\* cron.js:216, 226, 274  update({last_scraped: new Date()}).eq('id', c.id)
UpdateLastScraped(c) == [companies EXCEPT ![c].last_scraped = now]

Note(c, tags) == [ev EXCEPT ![c] = @ \cup tags]

(* ------------------------------- main() -------------------------------- *)
(* The variables declared inside the for loops (raw, urlChunks, jobUrls,   *)
(* toProcess, chunks, assembled) live for one iteration: they are given    *)
(* their initial values again when the iteration ends.                     *)

\* rows this run has inserted so far
InsertedThisRun == Len(job_posts) - Len(storeAtStart)

\* history kept when a model call rejects with an authentication error
AuthSeen(kind) ==
    IF kind = "auth" /\ authAt = 0
    THEN authAt' = idx
    ELSE UNCHANGED authAt

\* the block-scoped variables of one job URL (cron.js:232, 241-242)
LeaveJobUrl == nChunks' = 0 /\ chunkIdx' = 1 /\ assembled' = EmptyObj

\* the block-scoped variables of one company (cron.js:192, 202-203, 221-223)
LeaveSource ==
    /\ LeaveJobUrl
    /\ jobUrls' = <<>> /\ toProcess' = <<>> /\ tpIdx' = 1
    /\ s1Log' = <<>>

\* continue / end of the loop body: the for loop moves on (cron.js:184)
NextSource == idx' = idx + 1 /\ pc' = "loop" /\ LeaveSource

\* cron.js:158-182  a run starts: the companies are read, cutoff is computed
StartRun ==
    /\ pc = "idle" /\ runs < MaxRuns
    /\ world.fixed \/ runs = 0
    /\ \E ok \in BOOLEAN :
         /\ QueryAnswer(ok)
         /\ IF ok
            THEN /\ pc' = "loop"
                 /\ cutoff' = now - Cooldown
                 /\ snap' = [c \in Companies |-> companies[c].last_scraped]
            ELSE \* line 179: if (cErr) throw cErr
                 /\ pc' = "fatal"
                 /\ UNCHANGED <<cutoff, snap>>
    /\ idx' = 1 /\ newJobs' = <<>> /\ mail' = "none"
    /\ ev' = [c \in Companies |-> {}]
    /\ authAt' = 0
    /\ storeAtStart' = job_posts
    /\ UNCHANGED <<now, companies, job_posts, runs, nChunks, chunkIdx, jobUrls,
                   toProcess, tpIdx, assembled, world, prevFull>>
    /\ UNCHANGED s1Log
    /\ UNCHANGED limVars

\* cron.js:184-188  a company scraped within the cooldown is skipped
SkipRecent ==
    /\ pc = "loop" /\ idx <= NumCompanies
    /\ Recent(idx)
    /\ NextSource
    /\ ev' = Note(idx, {"recent"})
    /\ UNCHANGED <<now, companies, job_posts, runs, cutoff, snap, newJobs, mail,
                   world, authAt, storeAtStart, prevFull>>
    /\ UNCHANGED limVars

\* cron.js:184-189  the loop body starts for a company that is due
BeginSource ==
    /\ pc = "loop" /\ idx <= NumCompanies
    /\ ~Recent(idx)
    /\ pc' = "fetch"
    /\ ev' = Note(idx, {"due"})
    /\ UNCHANGED <<now, companies, job_posts, runs, cutoff, snap, idx, nChunks,
                   chunkIdx, jobUrls, toProcess, tpIdx, assembled, newJobs, mail,
                   world, authAt, storeAtStart, prevFull>>
    /\ UNCHANGED s1Log
    /\ UNCHANGED limVars

\* a variant of line 196-199 that advances the watermark before continue
FetchFailedMarking ==
    /\ NextSource
    /\ ev' = Note(idx, {"fetch", "fetchfail"})
    /\ companies' = UpdateLastScraped(idx)

\* cron.js:196-199  catch of the content fetch: continue
FetchFailed ==
    /\ NextSource
    /\ ev' = Note(idx, {"fetch", "fetchfail"})
    /\ UNCHANGED companies

\* cron.js:194-195, 202-203  the content is fetched and split into chunks
FetchSucceeded(n) ==
    /\ nChunks' = n /\ chunkIdx' = 1 /\ jobUrls' = <<>>
    /\ s1Log' = <<>>
    /\ pc' = "stage1"
    /\ ev' = Note(idx, {"fetch"})
    /\ UNCHANGED <<companies, idx, toProcess, tpIdx, assembled>>

\* cron.js:191-203
FetchRaw ==
    /\ pc = "fetch"
    /\ \E r \in FetchResults :
         /\ RawAnswer(idx, r)
         /\ IF r.ok THEN FetchSucceeded(r.n) ELSE FetchFailed
    /\ UNCHANGED <<now, job_posts, runs, cutoff, snap, newJobs, mail, world,
                   authAt, storeAtStart, prevFull>>
    /\ UNCHANGED limVars

\* a variant of line 209-211 that leaves the loop at the first chunk that
\* fails, as the handler of pages/api/parse-jobs.ts does (break)
Stage1ChunkBreaking ==
    /\ pc = "stage1" /\ chunkIdx <= nChunks
    /\ \E r \in S1Replies :
         /\ S1Answer(idx, r)
         /\ jobUrls' = IF r.kind \in {"array", "mixed"} THEN AddAll(jobUrls, r.urls)
                       ELSE jobUrls
         /\ s1Log' = Append(s1Log, r)
         /\ ev' = Note(idx, {"model1"})
         /\ AuthSeen(r.kind)
         /\ chunkIdx' = IF r.kind = "array" THEN chunkIdx + 1 ELSE nChunks + 1
    /\ UNCHANGED <<now, companies, job_posts, pc, runs, cutoff, snap, idx, nChunks,
                   toProcess, tpIdx, assembled, newJobs, mail, world,
                   storeAtStart, prevFull>>
    /\ UNCHANGED limVars

\* cron.js:204-212  one chunk of stage 1; every failure is caught and logged
Stage1Chunk ==
    /\ pc = "stage1" /\ chunkIdx <= nChunks
    /\ \E r \in S1Replies :
         /\ S1Answer(idx, r)
         /\ jobUrls' = IF r.kind \in {"array", "mixed"} THEN AddAll(jobUrls, r.urls)
                       ELSE jobUrls
         /\ s1Log' = Append(s1Log, r)
         /\ ev' = Note(idx, {"model1"})
         /\ AuthSeen(r.kind)
    /\ chunkIdx' = chunkIdx + 1
    /\ UNCHANGED <<now, companies, job_posts, pc, runs, cutoff, snap, idx, nChunks,
                   toProcess, tpIdx, assembled, newJobs, mail, world,
                   storeAtStart, prevFull>>
    /\ UNCHANGED limVars

\* a variant of line 214-218 that leaves the watermark alone, as the
\* handler of pages/api/parse-jobs.ts does when it found no job
NoUrlsFoundUnmarked ==
    /\ pc = "stage1" /\ chunkIdx > nChunks
    /\ jobUrls = <<>>
    /\ NextSource
    /\ ev' = Note(idx, {"nourls"})
    /\ UNCHANGED <<now, companies, job_posts, runs, cutoff, snap, newJobs, mail,
                   world, authAt, storeAtStart, prevFull>>
    /\ UNCHANGED limVars

\* cron.js:214-218  no URL at all: the watermark is advanced
NoUrlsFound ==
    /\ pc = "stage1" /\ chunkIdx > nChunks
    /\ jobUrls = <<>>
    /\ companies' = UpdateLastScraped(idx)
    /\ NextSource
    /\ ev' = Note(idx, {"nourls"})
    /\ UNCHANGED <<now, job_posts, runs, cutoff, snap, newJobs, mail, world,
                   authAt, storeAtStart, prevFull>>
    /\ UNCHANGED limVars

\* a variant of line 224-228 that leaves the watermark alone
NoNewJobsUnmarked ==
    /\ pc = "stage1" /\ chunkIdx > nChunks
    /\ jobUrls # <<>>
    /\ ToProcess(idx) = <<>>
    /\ NextSource
    /\ ev' = Note(idx, {"nonew"})
    /\ UNCHANGED <<now, companies, job_posts, runs, cutoff, snap, newJobs, mail,
                   world, authAt, storeAtStart, prevFull>>
    /\ UNCHANGED limVars

\* cron.js:220-228  every URL is already stored: the watermark is advanced
NoNewJobs ==
    /\ pc = "stage1" /\ chunkIdx > nChunks
    /\ jobUrls # <<>>
    /\ ToProcess(idx) = <<>>
    /\ companies' = UpdateLastScraped(idx)
    /\ NextSource
    /\ ev' = Note(idx, {"nonew"})
    /\ UNCHANGED <<now, job_posts, runs, cutoff, snap, newJobs, mail, world,
                   authAt, storeAtStart, prevFull>>
    /\ UNCHANGED limVars

\* cron.js:220-231  some URLs are new: stage 2 starts
BeginStage2 ==
    /\ pc = "stage1" /\ chunkIdx > nChunks
    /\ jobUrls # <<>>
    /\ ToProcess(idx) # <<>>
    /\ toProcess' = ToProcess(idx)
    /\ tpIdx' = 1 /\ pc' = "page"
    /\ nChunks' = 0 /\ chunkIdx' = 1
    /\ s1Log' = <<>>
    /\ ev' = Note(idx, {"stage2"})
    /\ UNCHANGED <<now, companies, job_posts, runs, cutoff, snap, idx, jobUrls,
                   assembled, newJobs, mail, world, authAt, storeAtStart, prevFull>>
    /\ UNCHANGED limVars

\* cron.js:231-242  the page of one new URL is fetched and split
FetchPageStep(noted) ==
    /\ pc = "page" /\ tpIdx <= Len(toProcess)
    /\ \E r \in FetchResults :
         /\ noted = ~r.ok
         /\ PageAnswer(toProcess[tpIdx], r)
         /\ IF r.ok
            THEN /\ nChunks' = r.n /\ chunkIdx' = 1 /\ assembled' = EmptyObj
                 /\ pc' = "stage2"
                 /\ ev' = Note(idx, {"page"})
                 /\ UNCHANGED tpIdx
            ELSE \* line 236-239: continue
                 /\ tpIdx' = tpIdx + 1
                 /\ ev' = Note(idx, {"page"})
                 /\ UNCHANGED <<nChunks, chunkIdx, assembled, pc>>
    /\ UNCHANGED <<now, companies, job_posts, runs, cutoff, snap, idx, jobUrls,
                   toProcess, newJobs, mail, world, authAt, storeAtStart, prevFull>>
    /\ UNCHANGED s1Log

\* cron.js:231-242
FetchPage == (\E noted \in BOOLEAN : FetchPageStep(noted)) /\ UNCHANGED limVars

\* cron.js:231-242, with the history of the failed fetches
FetchPageNoting ==
    /\ \E noted \in BOOLEAN :
          /\ FetchPageStep(noted)
          /\ failed' = IF noted THEN failed \cup {<<idx, toProcess[tpIdx]>>}
                        ELSE failed
    /\ UNCHANGED <<limiter, lpc, tokensNeeded, wake, issued, wsLog, chatLog,
                   ccVars, split, nu, api, chat, ov>>

\* cron.js:244-252  one chunk of stage 2; every failure is caught and logged
Stage2Chunk ==
    /\ pc = "stage2" /\ chunkIdx <= nChunks
    /\ \E r \in S2Replies :
         /\ S2Answer(toProcess[tpIdx], r)
         /\ assembled' = IF r.kind = "object" THEN ObjectAssign(assembled, r.obj)
                         ELSE assembled
         /\ ev' = Note(idx, {"model2"})
         /\ AuthSeen(r.kind)
    /\ chunkIdx' = chunkIdx + 1
    /\ UNCHANGED <<now, companies, job_posts, pc, runs, cutoff, snap, idx, nChunks,
                   jobUrls, toProcess, tpIdx, newJobs, mail, world,
                   storeAtStart, prevFull>>
    /\ UNCHANGED s1Log
    /\ UNCHANGED limVars

\* cron.js:254-271  the posting is completed and written.  The store
\*   "done"  applies the upsert (a row with the key is left alone; the
\*           history notes "dup" for such a conflict),
\*   "error" answers with an error object, which line 262 does not look at,
\*   "throw" makes the await reject (line 268).
Persist ==
    /\ pc = "stage2" /\ chunkIdx > nChunks
    /\ LET row == ObjectAssign(assembled, Identity(idx, toProcess[tpIdx]))
       IN  \E res \in {"done", "error", "throw"} :
             /\ UpsertAnswer(res)
             /\ job_posts' = IF res = "done" THEN Upsert(job_posts, row) ELSE job_posts
             /\ newJobs' = IF res = "throw" THEN newJobs ELSE Append(newJobs, row)
             /\ ev' = Note(idx, IF res = "done" /\ HasKey(job_posts, row)
                                THEN {"upsert", "dup"} ELSE {"upsert"})
    /\ tpIdx' = tpIdx + 1 /\ pc' = "page"
    /\ LeaveJobUrl
    /\ UNCHANGED <<now, companies, runs, cutoff, snap, idx, jobUrls, toProcess,
                   mail, world, authAt, storeAtStart, prevFull>>
    /\ UNCHANGED s1Log
    /\ UNCHANGED limVars

\* cron.js:273-275  after the last new URL the watermark is advanced
SourceDone ==
    /\ pc = "page" /\ tpIdx > Len(toProcess)
    /\ companies' = UpdateLastScraped(idx)
    /\ NextSource
    /\ UNCHANGED <<now, job_posts, runs, cutoff, snap, newJobs, mail, world, ev,
                   authAt, storeAtStart, prevFull>>
    /\ UNCHANGED limVars

\* a variant of line 278 without the test of newJobs.length
NotifyAlways ==
    /\ pc = "loop" /\ idx > NumCompanies
    /\ \E sent \in BOOLEAN : mail' = IF sent THEN "sent" ELSE "failed"
    /\ pc' = "done"
    /\ UNCHANGED <<now, companies, job_posts, runs, cutoff, snap, idx, nChunks,
                   chunkIdx, jobUrls, toProcess, tpIdx, assembled, newJobs, world,
                   ev, authAt, storeAtStart, prevFull>>
    /\ UNCHANGED s1Log
    /\ UNCHANGED limVars

\* cron.js:277-297  after the loop: one mail when newJobs is not empty
Notify ==
    /\ pc = "loop" /\ idx > NumCompanies
    /\ IF newJobs # <<>>
       THEN \E sent \in BOOLEAN : mail' = IF sent THEN "sent" ELSE "failed"
       ELSE mail' = "none"
    /\ pc' = "done"
    /\ UNCHANGED <<now, companies, job_posts, runs, cutoff, snap, idx, nChunks,
                   chunkIdx, jobUrls, toProcess, tpIdx, assembled, newJobs, world,
                   ev, authAt, storeAtStart, prevFull>>
    /\ UNCHANGED s1Log
    /\ UNCHANGED limVars

\* the process ends (line 297, or line 300-303 after a rejection); what is
\* left of it is the store
Finish ==
    /\ pc \in {"done", "fatal"}
    /\ pc' = "idle"
    /\ runs' = runs + 1
    /\ prevFull' = /\ pc = "done"
                   /\ \A c \in Companies : "recent" \notin ev[c]
    /\ cutoff' = 0 /\ snap' = [c \in Companies |-> NULL]
    /\ idx' = 1 /\ newJobs' = <<>> /\ mail' = "none"
    /\ ev' = [c \in Companies |-> {}]
    /\ authAt' = 0
    /\ storeAtStart' = job_posts
    /\ UNCHANGED <<now, companies, job_posts, nChunks, chunkIdx, jobUrls,
                   toProcess, tpIdx, assembled, world>>
    /\ UNCHANGED s1Log
    /\ UNCHANGED limVars

\* time passes between runs
Tick ==
    /\ pc = "idle"
    /\ now + Cooldown <= MaxTime
    /\ now' = now + Cooldown
    /\ UNCHANGED pipeRest
    /\ UNCHANGED limVars

InitRun ==
    /\ now = StartTime
    /\ companies \in [Companies -> {[last_scraped |-> NULL],
                                    [last_scraped |-> StartTime - Cooldown]}]
    /\ job_posts = <<>>
    /\ pc = "idle" /\ runs = 0
    /\ cutoff = 0 /\ snap = [c \in Companies |-> NULL]
    /\ idx = 1 /\ nChunks = 0 /\ chunkIdx = 1
    /\ jobUrls = <<>> /\ toProcess = <<>> /\ tpIdx = 1
    /\ assembled = EmptyObj /\ newJobs = <<>> /\ mail = "none"
    /\ ev = [c \in Companies |-> {}]
    /\ authAt = 0
    /\ storeAtStart = <<>> /\ prevFull = FALSE
    /\ s1Log = <<>>

(* ----------------------------- RateLimiter ----------------------------- *)
(* One caller at a time: chatOnce awaits waitTurn, records, sends the      *)
(* request and awaits the answer; then the next chatOnce may start.        *)
(* A setTimeout of d ms is due d ms after it is set and may fire late.     *)

\* cron.js:75-83  constructor
NewLimiter(maxTokens, maxRequests, minInterval, t) ==
    [maxTokensPerMinute   |-> maxTokens,
     maxRequestsPerMinute |-> maxRequests,
     minIntervalMs        |-> minInterval,
     tokensThisMinute     |-> 0,
     requestsThisMinute   |-> 0,
     minuteStart          |-> t,
     lastRequestTime      |-> 0]

\* cron.js:174  new RateLimiter()
DefaultLimiter(t) ==
    NewLimiter(DefaultMaxTokensPerMinute, DefaultMaxRequestsPerMinute,
               DefaultMinIntervalMs, t)

\* the limiters of SpecRL: the default one and two with a low request ceiling
Limiters(t) ==
    { DefaultLimiter(t),
      NewLimiter(DefaultMaxTokensPerMinute, 2, DefaultMinIntervalMs, t),
      NewLimiter(DefaultMaxTokensPerMinute, 3, DefaultMinIntervalMs, t) }

\* the chatOnce calls that run concurrently in SpecCC
Callers == {1, 2}

\* encode(content).length of the prompts sent in SpecRL
TokenSizes == {400, 6000}
\* how late a timer may fire
TimerLags == {0, PollMs}
\* how long the provider takes to answer, or to fail
Latencies == {0, 500, 3000}
\* the clock of SpecRL stops here
Horizon == StartTime + 2 * WindowMs + 10 * PollMs

\* a variant of line 87 with a window of 6_000 ms
resetIfNeededEarly(l, t) ==
    IF t - l.minuteStart >= 6000
    THEN [l EXCEPT !.tokensThisMinute = 0, !.requestsThisMinute = 0, !.minuteStart = t]
    ELSE l

\* cron.js:85-92
resetIfNeeded(l, t) ==
    IF t - l.minuteStart >= WindowMs
    THEN [l EXCEPT !.tokensThisMinute = 0, !.requestsThisMinute = 0, !.minuteStart = t]
    ELSE l

\* a variant of line 103 that compares with > instead of >=
MustWaitOffByOne(l, n) ==
    \/ l.tokensThisMinute + n > l.maxTokensPerMinute
    \/ l.requestsThisMinute > l.maxRequestsPerMinute

\* cron.js:101-104  the condition of the while loop
MustWait(l, n) ==
    \/ l.tokensThisMinute + n > l.maxTokensPerMinute
    \/ l.requestsThisMinute >= l.maxRequestsPerMinute

\* cron.js:97-98
IntervalLeft(l, t) == l.minIntervalMs - (t - l.lastRequestTime)

\* cron.js:110-114
record(l, tokensUsed, t) ==
    [l EXCEPT !.tokensThisMinute = @ + tokensUsed,
              !.requestsThisMinute = @ + 1,
              !.lastRequestTime = t]

\* history: the window starts of this admission and of the
\* maxRequestsPerMinute admissions before it
Admit(log, l) ==
    LET all == Append(log, l.minuteStart)
    IN  IF Len(all) > l.maxRequestsPerMinute + 1 THEN Tail(all) ELSE all

\* cron.js:101-108  the while loop is entered at time t: it sleeps or returns
EnterLoop(l, n, t) ==
    IF MustWait(l, n)
    THEN lpc' = "poll" /\ wake' = t + PollMs /\ UNCHANGED wsLog
    ELSE lpc' = "admitted" /\ wake' = 0 /\ wsLog' = Admit(wsLog, l)

\* cron.js:119-121, 94-100  chatOnce starts and calls waitTurn
WaitTurn ==
    /\ lpc = "idle" /\ issued < MaxRequests
    /\ issued' = issued + 1
    /\ chatLog' = <<>>
    /\ UNCHANGED ccVars
    /\ \E n \in TokenSizes :
         /\ tokensNeeded' = n
         /\ limiter' = resetIfNeeded(limiter, now)
         /\ IF IntervalLeft(limiter', now) > 0
            THEN /\ lpc' = "sleep"
                 /\ wake' = now + IntervalLeft(limiter', now)
                 /\ UNCHANGED wsLog
            ELSE EnterLoop(limiter', n, now)
    /\ UNCHANGED now
    /\ UNCHANGED pipeRest

\* cron.js:99-101  the interval timer fires
IntervalElapsed ==
    /\ lpc = "sleep"
    /\ \E lag \in TimerLags :
         /\ wake + lag <= Horizon
         /\ now' = wake + lag
         /\ EnterLoop(limiter, tokensNeeded, wake + lag)
    /\ UNCHANGED <<limiter, tokensNeeded, issued, chatLog, ccVars>>
    /\ UNCHANGED pipeRest

\* cron.js:105-106, 101-104  the polling timer fires
PollElapsed ==
    /\ lpc = "poll"
    /\ \E lag \in TimerLags :
         /\ wake + lag <= Horizon
         /\ now' = wake + lag
         /\ limiter' = resetIfNeeded(limiter, wake + lag)
         /\ EnterLoop(limiter', tokensNeeded, wake + lag)
    /\ UNCHANGED <<tokensNeeded, issued, chatLog, ccVars>>
    /\ UNCHANGED pipeRest

\* how a request that was sent ends (cron.js:124-131): with an answer, or
\* with a rejection that is transient (HTTP 429, 5xx, a timeout), an
\* authentication error (HTTP 401) or fatal for the chunk (HTTP 400,
\* context_length_exceeded)
Outcomes == {"ok", "transient", "auth", "fatal"}

\* cron.js:122-127  after waitTurn: record, then create() sends the request,
\* or rejects without having sent anything (no connection); the rejection
\* is rethrown (line 129-131)
RecordAndSend ==
    /\ lpc = "admitted"
    /\ limiter' = record(limiter, tokensNeeded, now)
    /\ \E sent \in BOOLEAN :
         IF sent
         THEN lpc' = "sent" /\ chatLog' = chatLog \o <<"record", "send">>
         ELSE lpc' = "idle" /\ chatLog' = chatLog \o <<"record", "unsent">>
    /\ UNCHANGED <<now, tokensNeeded, wake, issued, wsLog, ccVars>>
    /\ UNCHANGED pipeRest

\* cron.js:124-131  the answer or the failure arrives: chatOnce is over
Answered ==
    /\ lpc = "sent"
    /\ \E d \in Latencies :
         /\ now + d <= Horizon
         /\ now' = now + d
    /\ lpc' = "idle"
    /\ \E o \in Outcomes : chatLog' = Append(chatLog, o)
    /\ UNCHANGED <<limiter, tokensNeeded, wake, issued, wsLog, ccVars>>
    /\ UNCHANGED pipeRest

InitCaller ==
    /\ lpc = "idle" /\ tokensNeeded = 0 /\ wake = 0 /\ issued = 0 /\ wsLog = <<>>
    /\ chatLog = <<>>

\* no concurrent caller has started
InitCallers ==
    /\ callers = [c \in Callers |-> [pc |-> "idle", need |-> 0, wake |-> 0]]
    /\ gap = WindowMs

(* ------------------------- splitIntoTokenChunks ------------------------- *)
(* cron.js:43-56.  The text is its token sequence encode(text); token i of  *)
(* the text is the number i, so that a lost or a repeated token shows.      *)
(* One step is one iteration of the while loop.                             *)

Min(a, b) == IF a < b THEN a ELSE b
Max(a, b) == IF a > b THEN a ELSE b

\* cron.js:44  encode(text), for a text of n tokens
Tokens(n) == [i \in 1..n |-> i]

\* Array.prototype.slice(s, e) as called at cron.js:51: a negative index
\* counts from the end of the array
Slice(t, s, e) ==
    LET from == IF s < 0 THEN Max(Len(t) + s, 0) ELSE Min(s, Len(t))
        to   == IF e < 0 THEN Max(Len(t) + e, 0) ELSE Min(e, Len(t))
    IN  IF to <= from THEN <<>> ELSE SubSeq(t, from + 1, to)

\* cron.js:45  maxPerChunk
MaxPerChunk == split.contextWindow - split.promptOverhead

\* cron.js:50  end, with a window one token too wide
ChunkEndWide(start, maxPerChunk, len) == Min(start + maxPerChunk + 1, len)

\* cron.js:50  end
ChunkEnd(start, maxPerChunk, len) == Min(start + maxPerChunk, len)

\* cron.js:53  the next start, without the overlap
NextStartNoOverlap(end, overlap) == end

\* cron.js:53  the next start
NextStart(end, overlap) == Max(0, end - overlap)

\* a call that has not been made
NoSplit == [pc |-> "idle"]

\* cron.js:46  a chunks array that starts with an empty chunk
SplitCallSeeded(n, contextWindow, promptOverhead, overlap) ==
    [pc |-> "loop", tokens |-> Tokens(n), contextWindow |-> contextWindow,
     promptOverhead |-> promptOverhead, overlap |-> overlap,
     start |-> 0, chunks |-> << <<>> >>]

\* cron.js:43-47  the call, up to the while loop
SplitCall(n, contextWindow, promptOverhead, overlap) ==
    [pc |-> "loop", tokens |-> Tokens(n), contextWindow |-> contextWindow,
     promptOverhead |-> promptOverhead, overlap |-> overlap,
     start |-> 0, chunks |-> <<>>]

\* cron.js:49-54  one iteration of the loop.  A call that returns has pushed
\* at most one chunk per token; the model follows a call for MaxPushed
\* iterations, which is more than that.
SplitStep ==
    /\ split.pc = "loop"
    /\ split.start < Len(split.tokens)
    /\ Len(split.chunks) < MaxPushed
    /\ LET end == ChunkEnd(split.start, MaxPerChunk, Len(split.tokens))
           pushed == Append(split.chunks, Slice(split.tokens, split.start, end))
       IN  split' = IF end = Len(split.tokens)
                    THEN [split EXCEPT !.chunks = pushed, !.pc = "returned"]
                    ELSE [split EXCEPT !.chunks = pushed,
                                       !.start = NextStart(end, split.overlap)]
    /\ UNCHANGED <<mainVars, nu, api, chat, ov, failed>>

\* cron.js:49-53  an iteration leaves the loop with the start it began with
SameStartAgain ==
    split.pc = "loop" /\ split'.pc = "loop" /\ split'.start = split.start

\* cron.js:49,55  the loop condition fails: return chunks
SplitReturn ==
    /\ split.pc = "loop"
    /\ ~(split.start < Len(split.tokens))
    /\ split' = [split EXCEPT !.pc = "returned"]
    /\ UNCHANGED <<mainVars, nu, api, chat, ov, failed>>

(* ------------- main() with splitIntoTokenChunks followed ---------------- *)
(* cron.js:190-203 and 232-241 with the two calls of splitIntoTokenChunks   *)
(* run iteration by iteration: the fetch gives a text of so many tokens,    *)
(* the text is split for the context window getModelContextWindow gave,     *)
(* and the chunk loop runs over the chunks returned.                        *)

\* cron.js:194-195, 234-235  what a fetch gives: a rejection, or a text of
\* len tokens
Text(ok, len) == [ok |-> ok, len |-> len]

\* what the rest of the module leaves alone while main() fetches and splits
runRest == <<limiter, lpc, tokensNeeded, wake, issued, wsLog, chatLog, ccVars,
             nu, api, chat, ov, failed>>

\* cron.js:191-199, 202  the content is fetched; splitIntoTokenChunks is called
FetchRawText ==
    /\ pc = "fetch" /\ world.fixed
    /\ IF world.rawText[idx].ok
       THEN /\ split' = SplitCall(world.rawText[idx].len, world.contextWindow,
                                  PromptOverheadTokens, ChunkOverlapTokens)
            /\ pc' = "split"
            /\ UNCHANGED <<companies, idx, nChunks, chunkIdx, jobUrls, toProcess,
                           tpIdx, assembled, s1Log, ev>>
       ELSE FetchFailed /\ UNCHANGED split
    /\ UNCHANGED <<now, job_posts, runs, cutoff, snap, newJobs, mail, world,
                   authAt, storeAtStart, prevFull>>
    /\ UNCHANGED runRest

\* cron.js:202-204  splitIntoTokenChunks has returned urlChunks
UrlChunksReady ==
    /\ pc = "split" /\ split.pc = "returned"
    /\ FetchSucceeded(Len(split.chunks))
    /\ split' = NoSplit
    /\ UNCHANGED <<now, job_posts, runs, cutoff, snap, newJobs, mail, world,
                   authAt, storeAtStart, prevFull>>
    /\ UNCHANGED runRest

\* cron.js:232-241  the job page is fetched; splitIntoTokenChunks is called
FetchPageText ==
    /\ pc = "page" /\ tpIdx <= Len(toProcess) /\ world.fixed
    /\ IF world.pageText.ok /\ toProcess[tpIdx].form # "rel"
       THEN /\ split' = SplitCall(world.pageText.len, world.contextWindow,
                                  PromptOverheadTokens, ChunkOverlapTokens)
            /\ pc' = "pagesplit"
            /\ UNCHANGED tpIdx
       ELSE \* line 236-239: continue
            /\ tpIdx' = tpIdx + 1
            /\ UNCHANGED <<split, pc>>
    /\ ev' = Note(idx, {"page"})
    /\ UNCHANGED <<now, companies, job_posts, runs, cutoff, snap, idx, nChunks,
                   chunkIdx, jobUrls, toProcess, assembled, newJobs, mail, world,
                   authAt, storeAtStart, prevFull, s1Log>>
    /\ UNCHANGED runRest

\* cron.js:241-244  splitIntoTokenChunks has returned chunks
PageChunksReady ==
    /\ pc = "pagesplit" /\ split.pc = "returned"
    /\ nChunks' = Len(split.chunks) /\ chunkIdx' = 1 /\ assembled' = EmptyObj
    /\ pc' = "stage2"
    /\ split' = NoSplit
    /\ UNCHANGED <<now, companies, job_posts, runs, cutoff, snap, idx, jobUrls,
                   toProcess, tpIdx, newJobs, mail, world, ev, authAt,
                   storeAtStart, prevFull, s1Log>>
    /\ UNCHANGED runRest

(* ----------------------- normalizeUrl, on its own ----------------------- *)
(* cron.js:58-70 applied to two strings a and b, then to its own result.    *)

\* the strings normalizeUrl is called on
UrlInputs ==
    { Url(form, www, path, trail, dup, query, frag, caps, pad) :
        form \in {"http", "https", "rel"}, www \in 0..MaxWww,
        path \in {<<>>, <<"jobs", "1">>},
        trail \in BOOLEAN, dup \in BOOLEAN, query \in BOOLEAN,
        frag \in BOOLEAN, caps \in BOOLEAN, pad \in BOOLEAN }

\* the absolute URLs that differ from u at most in scheme, leading "www."
\* labels, query, fragment, repeated or trailing separators and letter case
Variants(u) ==
    IF u.form = "rel" THEN {u}
    ELSE { [u EXCEPT !.form = form, !.www = www, !.trail = trail, !.dup = dup,
                     !.query = query, !.frag = frag, !.caps = caps] :
             form \in {"http", "https"}, www \in 0..MaxWww,
             trail \in BOOLEAN, dup \in BOOLEAN, query \in BOOLEAN,
             frag \in BOOLEAN, caps \in BOOLEAN }

\* no call has been made
NoUrl == [pc |-> "idle"]

\* normalizeUrl(a), normalizeUrl(b)
NormalizeOnce ==
    /\ nu.pc = "call"
    /\ nu' = [nu EXCEPT !.pc = "once", !.outA = normalizeUrl(nu.a),
                        !.outB = normalizeUrl(nu.b)]
    /\ UNCHANGED <<mainVars, split, api, chat, ov, failed>>

\* normalizeUrl(normalizeUrl(a))
NormalizeAgain ==
    /\ nu.pc = "once"
    /\ nu' = [nu EXCEPT !.pc = "twice", !.twice = normalizeUrl(nu.outA)]
    /\ UNCHANGED <<mainVars, split, api, chat, ov, failed>>

(* ------------------- the parse-jobs handler, on its own ----------------- *)
(* src/pages/api/parse-jobs.ts:50-174, one GET request.  The single-stage   *)
(* main() variants of cron.js (351-, 554-) have the same chunk loop.        *)
(* A parsed posting is its url, as the model wrote it, and the chunk it     *)
(* was parsed from (standing for its other fields); a row of job_posts is   *)
(* a posting with its company_id.                                           *)

\* "https://example.com/jobs/1"
UrlN == normalizeUrl(UrlA)

\* parse-jobs.ts:10-16  JobParsed
JobParsed(url, i) == [url |-> url, chunk |-> i]

\* parse-jobs.ts:142-151  the row inserted for a posting of company c
JobRow(c, job) == [company_id |-> c, url |-> job.url, chunk |-> job.chunk]

\* parse-jobs.ts:99-120  what the model call for chunk i may give:
\*   throw    groq.chat.completions.create rejects
\*   text     an answer that does not start with "[" after cleanJSON
\*   badjson  an answer that starts with "[" and is not valid JSON
\*   array    a JSON array of these postings
ApiReplies(i) ==
    { [kind |-> k, jobs |-> <<>>] : k \in {"throw", "text", "badjson"} }
        \cup { [kind |-> "array", jobs |-> j] :
                 j \in {<<>>, <<JobParsed(UrlN, i)>>, <<JobParsed(UrlA, i)>>,
                        <<JobParsed(UrlA, i), JobParsed(UrlN, i)>>} }

\* the watermarks a company row may hold when the request comes
ApiWatermarks ==
    {NULL, StartTime - 1, StartTime - Cooldown, StartTime - Cooldown - 1}

\* no request has been made
NoApi == [pc |-> "idle"]

\* parse-jobs.ts:57-66  the request arrives: companies are read, cutoff is set
HandlerRequest ==
    /\ api.pc = "request"
    /\ \/ api' = [api EXCEPT !.pc = "loop", !.snap = api.companies,
                              !.cutoff = now - Cooldown]
       \/ api' = [api EXCEPT !.pc = "done", !.status = 500]     \* compErr
    /\ UNCHANGED <<mainVars, split, nu, chat, ov, failed>>

\* parse-jobs.ts:71-75  hasJobs, for the company at idx; the count is null
\* when the query fails
HasJobs(counted) ==
    counted /\ \E r \in api.job_posts : r.company_id = api.idx

\* parse-jobs.ts:78  the skip condition
HandlerSkips(hasJobs) ==
    /\ hasJobs
    /\ api.snap[api.idx] # NULL
    /\ api.snap[api.idx] >= api.cutoff

\* parse-jobs.ts:69-93  the head of the for loop: count, skip or fetch
HandlerFetch ==
    /\ api.pc = "loop" /\ api.idx \in Companies
    /\ \E counted \in BOOLEAN, f \in FetchResults :
          IF HandlerSkips(HasJobs(counted))
          THEN api' = [api EXCEPT !.idx = api.idx + 1]          \* line 79
          ELSE IF ~f.ok
          THEN api' = [api EXCEPT !.idx = api.idx + 1,          \* line 92
                                  !.fetched = @ \cup {api.idx}]
          ELSE api' = [api EXCEPT !.pc = "chunks", !.n = f.n, !.chunk = 1,
                                  !.asked = {}, !.jobsAccumulator = <<>>,
                                  !.fetched = @ \cup {api.idx}]
    /\ UNCHANGED <<mainVars, split, nu, chat, ov, failed>>

\* parse-jobs.ts:106-109  a failed model call: break
ChunkFailed == [api EXCEPT !.pc = "insert", !.asked = @ \cup {api.chunk},
                          !.called = @ \cup {api.idx}]

\* parse-jobs.ts:96-120  one iteration of the chunk loop, or its end
HandlerChunk ==
    /\ api.pc = "chunks"
    /\ IF api.chunk > api.n
       THEN api' = [api EXCEPT !.pc = "insert"]
       ELSE \E r \in ApiReplies(api.chunk) :
              api' = IF r.kind = "throw" THEN ChunkFailed
                     ELSE [api EXCEPT
                             !.chunk = api.chunk + 1,
                             !.asked = @ \cup {api.chunk},
                             !.called = @ \cup {api.idx},
                             !.jobsAccumulator =
                                 IF r.kind = "array" THEN @ \o r.jobs ELSE @]
    /\ UNCHANGED <<mainVars, split, nu, chat, ov, failed>>

\* parse-jobs.ts:123-128  the values of a Map keyed by the url as parsed:
\* map.set replaces the entry of a url by the later one
UniqueJobs(jobs) ==
    { j \in Range(jobs) :
        \E i \in DOMAIN jobs :
            /\ jobs[i] = j
            /\ \A k \in DOMAIN jobs : jobs[k].url = j.url => k <= i }

\* parse-jobs.ts:131-135  the urls stored for company c, as stored
SeenUrls(c) == { r.url : r \in { x \in api.job_posts : x.company_id = c } }

\* parse-jobs.ts:122-166  deduplicate, drop the urls the store holds, insert
\* the others (each insert may fail), update last_scraped
HandlerInsert ==
    /\ api.pc = "insert"
    /\ LET fresh == { j \in UniqueJobs(api.jobsAccumulator) :
                        j.url \notin SeenUrls(api.idx) }
       IN  \E inserted \in SUBSET fresh :
             api' = [api EXCEPT
                       !.pc = "loop", !.idx = api.idx + 1,
                       !.job_posts = @ \cup {JobRow(api.idx, j) : j \in inserted},
                       !.results = @ \cup {JobRow(api.idx, j) : j \in inserted},
                       !.considered = @ \cup {JobRow(api.idx, j) :
                                                j \in Range(api.jobsAccumulator)},
                       !.companies = [@ EXCEPT ![api.idx] = now]]
    /\ UNCHANGED <<mainVars, split, nu, chat, ov, failed>>

\* parse-jobs.ts:169  the loop is over: 200 with the results
HandlerRespond ==
    /\ api.pc = "loop" /\ api.idx \notin Companies
    /\ api' = [api EXCEPT !.pc = "done", !.status = 200]
    /\ UNCHANGED <<mainVars, split, nu, chat, ov, failed>>

\* no function is being followed on its own
\* no chatOnce call of a run is followed, no runs overlap
NoChat == [pc |-> "idle"]
NoOverlap == [pc |-> "idle"]

InitExt ==
    split = NoSplit /\ nu = NoUrl /\ api = NoApi /\ chat = NoChat /\ ov = NoOverlap /\ failed = {}

vars == <<pipeVars, limVars>>

Init ==
    /\ InitRun /\ world \in {FreeWorld} \cup Worlds
    /\ limiter = DefaultLimiter(StartTime) /\ InitCaller /\ InitCallers /\ InitExt

Next ==
    \/ StartRun \/ SkipRecent \/ BeginSource \/ FetchRaw \/ Stage1Chunk
    \/ NoUrlsFound \/ NoNewJobs \/ BeginStage2 \/ FetchPage \/ Stage2Chunk
    \/ Persist \/ SourceDone \/ Notify \/ Finish \/ Tick

Spec == Init /\ [][Next]_vars

\* the limiter with one caller
InitRL ==
    /\ InitRun /\ world = FreeWorld
    /\ \A c \in Companies : companies[c].last_scraped = NULL
    /\ limiter \in Limiters(StartTime) /\ InitCaller /\ InitCallers /\ InitExt

NextRL == WaitTurn \/ IntervalElapsed \/ PollElapsed \/ RecordAndSend \/ Answered

SpecRL == InitRL /\ [][NextRL]_vars

(* --------------------------- stage-2 merging ---------------------------- *)
(* One run in a world where every company has one job page, the page       *)
(* splits into up to MaxChunks chunks and each chunk has its own answer.   *)

MergeWorlds ==
    { [fixed |-> TRUE,
       raw |-> [c \in Companies |-> Fetched(TRUE, 1)],
       s1 |-> [x \in Companies \X {1, 2} |-> S1Reply("array", <<UrlA, UrlB>>)],
       page |-> Fetched(TRUE, n), s2 |-> answers, upsert |-> "done"] :
      n \in 1..MaxChunks, answers \in [1..MaxChunks -> S2Replies] }

InitMerge ==
    /\ InitRun /\ world \in MergeWorlds
    /\ \A c \in Companies : companies[c].last_scraped = NULL
    /\ limiter = DefaultLimiter(StartTime) /\ InitCaller /\ InitCallers /\ InitExt

NextMerge ==
    \/ StartRun \/ BeginSource \/ FetchRaw \/ Stage1Chunk \/ BeginStage2
    \/ FetchPage \/ Stage2Chunk \/ Persist \/ SourceDone \/ Notify \/ Finish
    \/ SkipRecent

SpecMerge == InitMerge /\ [][NextMerge]_vars

(* ------------------- concurrent callers of one limiter ------------------ *)
(* Several chatOnce calls share one RateLimiter.  A step is what runs      *)
(* without interruption on the event loop: the synchronous start of a call *)
(* up to its first pending await, the continuation of a call whose         *)
(* waitTurn has returned, or a timer callback with what follows it.  The   *)
(* continuation after `await limiter.waitTurn()` is a microtask: calls     *)
(* started in the same synchronous block all run their waitTurn before     *)
(* any of them records, and no timer fires while a continuation is queued. *)

\* what the concurrent callers leave alone
ccRest == <<pipeRest, lpc, tokensNeeded, wake, wsLog, chatLog>>

\* the clock of SpecCC stops here: the calls come in a burst of a few
\* intervals, around the end of the limiter's first window
HorizonCC == StartTime + 4 * DefaultMinIntervalMs

Pending(c)  == callers[c].pc \in {"sleep", "poll"}
Queued(c)   == callers[c].pc = "admitted"

\* cron.js:94-104  waitTurn(n) up to its first pending await, at time t with
\* the limiter in state l: the caller sleeps, polls, or waitTurn returns
FirstAwait(l, n, t) ==
    IF IntervalLeft(l, t) > 0
    THEN [pc |-> "sleep", need |-> n, wake |-> t + IntervalLeft(l, t)]
    ELSE IF MustWait(l, n)
         THEN [pc |-> "poll", need |-> n, wake |-> t + PollMs]
         ELSE [pc |-> "admitted", need |-> n, wake |-> 0]

\* cron.js:101-108  the while loop as caller c meets it at time t
CallerLoop(c, l, n, t) ==
    IF MustWait(l, n)
    THEN callers' = [callers EXCEPT ![c] = [pc |-> "poll", need |-> n, wake |-> t + PollMs]]
    ELSE callers' = [callers EXCEPT ![c] = [pc |-> "admitted", need |-> n, wake |-> 0]]

\* cron.js:119-121, 94-104  one synchronous block starts the chatOnce calls
\* of the callers in S (as Promise.all over the chunks would): each runs
\* into waitTurn, and none has recorded when the next one starts
CallersStart ==
    /\ \A d \in Callers : ~Queued(d)
    /\ \E S \in SUBSET { c \in Callers : callers[c].pc = "idle" } :
         /\ S # {}
         /\ issued + Cardinality(S) <= MaxRequests
         /\ issued' = issued + Cardinality(S)
         /\ limiter' = resetIfNeeded(limiter, now)
         /\ \E need \in [S -> TokenSizes] :
              callers' = [c \in Callers |->
                            IF c \in S THEN FirstAwait(limiter', need[c], now)
                            ELSE callers[c]]
    /\ UNCHANGED <<now, gap>>
    /\ UNCHANGED ccRest

\* timers fire in the order in which they are due, and not while a
\* continuation is queued
TimerDue(c) ==
    /\ Pending(c)
    /\ \A d \in Callers : ~Queued(d)
    /\ \A d \in Callers : Pending(d) => callers[c].wake <= callers[d].wake

FireTime(c, lag) == (IF callers[c].wake > now THEN callers[c].wake ELSE now) + lag

\* cron.js:99-104  the interval timer of caller c fires
CallerIntervalElapsed(c) ==
    /\ TimerDue(c) /\ callers[c].pc = "sleep"
    /\ \E lag \in TimerLags :
         /\ FireTime(c, lag) <= HorizonCC
         /\ now' = FireTime(c, lag)
         /\ CallerLoop(c, limiter, callers[c].need, FireTime(c, lag))
    /\ UNCHANGED <<limiter, issued, gap>>
    /\ UNCHANGED ccRest

\* cron.js:105-106, 101-104  the polling timer of caller c fires
CallerPollElapsed(c) ==
    /\ TimerDue(c) /\ callers[c].pc = "poll"
    /\ \E lag \in TimerLags :
         /\ FireTime(c, lag) <= HorizonCC
         /\ now' = FireTime(c, lag)
         /\ limiter' = resetIfNeeded(limiter, FireTime(c, lag))
         /\ CallerLoop(c, limiter', callers[c].need, FireTime(c, lag))
    /\ UNCHANGED <<issued, gap>>
    /\ UNCHANGED ccRest

\* cron.js:122-127  the continuation of chatOnce: record and send
CallerRecord(c) ==
    /\ Queued(c)
    /\ limiter' = record(limiter, callers[c].need, now)
    /\ gap' = IF limiter.lastRequestTime > 0 /\ now - limiter.lastRequestTime < gap
              THEN now - limiter.lastRequestTime ELSE gap
    /\ callers' = [callers EXCEPT ![c].pc = "sent"]
    /\ UNCHANGED <<now, issued>>
    /\ UNCHANGED ccRest

\* cron.js:124-131  the answer or the failure arrives: the call is over
CallerAnswered(c) ==
    /\ callers[c].pc = "sent"
    /\ \A d \in Callers : ~Queued(d)
    /\ \E d \in Latencies :
         /\ now + d <= HorizonCC
         /\ \A e \in Callers : Pending(e) => now + d <= callers[e].wake
         /\ now' = now + d
    /\ callers' = [callers EXCEPT ![c] = [pc |-> "idle", need |-> 0, wake |-> 0]]
    /\ UNCHANGED <<limiter, issued, gap>>
    /\ UNCHANGED ccRest

\* the limiter was constructed (line 174) most of a window before the burst
InitCC ==
    /\ InitRun /\ world = FreeWorld
    /\ \A c \in Companies : companies[c].last_scraped = NULL
    /\ limiter \in Limiters(StartTime - WindowMs + 2 * DefaultMinIntervalMs)
    /\ InitCaller /\ InitCallers /\ InitExt

NextCC ==
    \/ CallersStart
    \/ \E c \in Callers :
          \/ CallerIntervalElapsed(c) \/ CallerPollElapsed(c)
          \/ CallerRecord(c) \/ CallerAnswered(c)

SpecCC == InitCC /\ [][NextCC]_vars

(* ============================== properties ============================= *)

\* main() is inside a run, between line 182 and its end
InRun == pc \notin {"idle", "fatal"}

\* the for loop of line 184 is past company c
Passed(c) == InRun /\ idx > c

RowsOf(rows, c) == { i \in DOMAIN rows : rows[i]["company_id"] = c }

(* C1: the store never holds two postings with the same (company_id, url)  *)
(* key, url being the normalized URL the posting was written with; a       *)
(* write for a key that is present adds no row.                            *)
C1_NoDuplicateKey ==
    \A i, j \in DOMAIN job_posts :
        (/\ job_posts[i]["company_id"] = job_posts[j]["company_id"]
         /\ job_posts[i]["url"] = job_posts[j]["url"]) => i = j

\* a write the store applied met a stored key and left the table alone
C1_Witness ==
    /\ InRun /\ world.fixed /\ world.upsert = "done"
    /\ \E c \in Companies :
         /\ "upsert" \in ev[c]
         /\ RowsOf(storeAtStart, c) # {}
         /\ RowsOf(job_posts, c) = RowsOf(storeAtStart, c)

\* a world that answers the later runs as it answered the first, and in
\* which no fetch, no model call and no write fails
SameAndSound ==
    /\ world.fixed
    /\ \A c \in Companies :
         /\ world.raw[c].ok
         /\ world.s1[<<c, 1>>] = world.s1[<<c, 2>>]
         /\ world.s1[<<c, 1>>].kind = "array"
    /\ world.page.ok /\ world.upsert = "done"
    /\ \A i \in DOMAIN world.s2 : world.s2[i].kind = "object"

\* this run comes after a run that went through every company, and it has
\* itself gone through every company (the cooldown was over for each)
SecondFullRun ==
    /\ pc = "done" /\ runs >= 1 /\ prevFull
    /\ \A c \in Companies : "due" \in ev[c]

(* C2: a run repeated on the same content and the same model outputs,      *)
(* after a complete first run and after the cooldown, inserts no posting,  *)
(* changes no stored posting and sends no notification.                    *)
C2_RerunEmitsNothing ==
    (SameAndSound /\ SecondFullRun) =>
        /\ job_posts = storeAtStart
        /\ newJobs = <<>>
        /\ mail = "none"

(* C3: after a model call failed with an authentication error at company   *)
(* k, nothing is done for the companies after k, and the watermarks of k   *)
(* and of the companies after k are what they were when the run started.   *)
C3_AuthErrorAborts ==
    authAt # 0 =>
        /\ \A c \in Companies : c >= authAt =>
              companies[c].last_scraped = snap[c]
        /\ \A c \in Companies : c > authAt => ev[c] = {}

(* C4: a run in which an authentication error came at a later company,     *)
(* after postings were written for the companies before it, ends as an     *)
(* aborted run, and the mail about those postings was sent before that.    *)
C4_PartialMailThenAbort ==
    (/\ pc \in {"done", "fatal"}
     /\ authAt > 1
     /\ \E c \in Companies : c < authAt /\ "upsert" \in ev[c]) =>
        /\ pc = "fatal"
        /\ mail # "none"

(* C5: a company whose content fetch failed gets no model call and no      *)
(* write, its watermark is the one read when the run started, and the      *)
(* loop has moved on to the next company.                                  *)
C5_FetchFailureSkips ==
    \A c \in Companies :
        "fetchfail" \in ev[c] =>
            /\ ev[c] = {"due", "fetch", "fetchfail"}
            /\ companies[c].last_scraped = snap[c]
            /\ RowsOf(job_posts, c) = RowsOf(storeAtStart, c)
            /\ Passed(c)

\* the fetch failed for the first company and the second one went to stage 1
C5_Witness ==
    /\ "fetchfail" \in ev[1]
    /\ "model1" \in ev[2]

Skipped(c)          == companies[c].last_scraped = snap[c]
WatermarkUpdated(c) == companies[c].last_scraped = now /\ now # snap[c]

(* C7: every company that was due and that the loop is past is in exactly  *)
(* one terminal state: Skipped exactly when its content fetch failed,      *)
(* WatermarkUpdated on every other path.                                   *)
C7_TerminalStates ==
    \A c \in Companies :
        ("due" \in ev[c] /\ Passed(c)) =>
            /\ Skipped(c) # WatermarkUpdated(c)
            /\ Skipped(c) <=> "fetchfail" \in ev[c]

\* stage 2 ran for a company and wrote nothing, and the watermark is set
C7_Witness ==
    \E c \in Companies :
        /\ Passed(c) /\ "stage2" \in ev[c] /\ "upsert" \notin ev[c]
        /\ WatermarkUpdated(c)

(* C8: a company is processed in a run iff its watermark is absent or      *)
(* more than one hour old; a company within the cooldown gets no fetch,    *)
(* no model call, no write and keeps its watermark.                        *)
C8_CooldownGate ==
    \A c \in Companies :
        Passed(c) =>
            /\ "due" \in ev[c] <=> (snap[c] = NULL \/ snap[c] < now - Cooldown)
            /\ "due" \notin ev[c] =>
                  /\ ev[c] = {"recent"}
                  /\ companies[c].last_scraped = snap[c]
                  /\ RowsOf(job_posts, c) = RowsOf(storeAtStart, c)

\* a run that skipped one company and processed one with an old watermark
C8_Witness ==
    \E c, d \in Companies :
        /\ Passed(c) /\ Passed(d)
        /\ "recent" \in ev[c]
        /\ "due" \in ev[d] /\ snap[d] # NULL

(* C9: when waitTurn(tokensNeeded) returns, minIntervalMs has passed since *)
(* the last recorded request, requestsThisMinute is below the ceiling and  *)
(* tokensThisMinute + tokensNeeded does not exceed the token ceiling.      *)
C9_AdmissionConditions ==
    lpc = "admitted" =>
        /\ now - limiter.lastRequestTime >= limiter.minIntervalMs
        /\ limiter.requestsThisMinute < limiter.maxRequestsPerMinute
        /\ limiter.tokensThisMinute + tokensNeeded <= limiter.maxTokensPerMinute

\* waitTurn returned for a request beyond the ceiling of one window
C9_Witness ==
    /\ lpc = "admitted"
    /\ issued > limiter.maxRequestsPerMinute
    /\ limiter.lastRequestTime > 0

\* the N admissions before this one were made in one window
FullWindowBefore ==
    /\ lpc = "admitted"
    /\ Len(wsLog) = limiter.maxRequestsPerMinute + 1
    /\ wsLog[1] = wsLog[limiter.maxRequestsPerMinute]

(* C10: with a ceiling of N requests per minute, a caller waits in the     *)
(* polling loop for the request count only when N requests were recorded   *)
(* in the window, and the request after N admissions of one window is      *)
(* admitted no earlier than 60 s after that window's start, with the       *)
(* counters reset.                                                         *)
C10_NextAfterWindowReset ==
    /\ (lpc = "poll" /\ limiter.tokensThisMinute + tokensNeeded
                          <= limiter.maxTokensPerMinute) =>
          limiter.requestsThisMinute = limiter.maxRequestsPerMinute
    /\ FullWindowBefore =>
          /\ now >= wsLog[1] + WindowMs
          /\ limiter.minuteStart >= wsLog[1] + WindowMs
          /\ limiter.requestsThisMinute = 0

\* the request after a full window was admitted, after polling
C10_Witness ==
    /\ FullWindowBefore
    /\ limiter.minuteStart > StartTime
    /\ limiter.maxRequestsPerMinute = issued - 1

\* number of requests the current chatOnce call has sent to the provider
Sends == Cardinality({ i \in DOMAIN chatLog : chatLog[i] = "send" })

\* how the current chatOnce call ended, "" while it runs
Ended ==
    IF chatLog # <<>> /\ chatLog[Len(chatLog)] \in Outcomes \cup {"unsent"}
    THEN chatLog[Len(chatLog)] ELSE ""

(* C12: in chatOnce every call of record comes after the send of the       *)
(* request it counts, so a call that ended without anything having been    *)
(* sent has recorded nothing.                                              *)
C12_RecordAfterSend ==
    /\ \A i \in DOMAIN chatLog :
          chatLog[i] = "record" => \E j \in 1..(i - 1) : chatLog[j] = "send"
    /\ Ended = "unsent" => "record" \notin { chatLog[i] : i \in DOMAIN chatLog }

(* C13: a chatOnce call reports a transient failure only after 3 requests, *)
(* reports a fatal-chunk or authentication failure after the first         *)
(* request, and never sends more than 3 requests.                          *)
C13_RetryThenReport ==
    /\ Ended = "transient" => Sends = 3
    /\ Ended \in {"auth", "fatal"} => Sends = 1
    /\ Sends <= 3

(* C11: with concurrent callers of one limiter, the requests recorded in   *)
(* a window never exceed maxRequestsPerMinute, the tokens recorded never   *)
(* exceed maxTokensPerMinute, and no two requests are recorded less than   *)
(* minIntervalMs apart.                                                    *)
C11_SerializedAdmission ==
    /\ limiter.requestsThisMinute <= limiter.maxRequestsPerMinute
    /\ limiter.tokensThisMinute <= limiter.maxTokensPerMinute
    /\ gap >= limiter.minIntervalMs

\* the normalized URLs of a stage-1 answer
UrlsOf(r) == { normalizeUrl(r.urls[i]) : i \in DOMAIN r.urls }

(* C14: in stage 1 every chunk of the company is submitted whatever the    *)
(* answers to the chunks before it were; the URLs of every array answer    *)
(* are candidates, and a failed call, an unparsable answer or an answer    *)
(* that is no array contributes no candidate.                              *)
C14_BadChunkIsolated ==
    pc = "stage1" =>
        /\ Len(s1Log) = chunkIdx - 1
        /\ chunkIdx <= nChunks + 1
        /\ \A i \in DOMAIN s1Log :
              s1Log[i].kind = "array" => UrlsOf(s1Log[i]) \subseteq Range(jobUrls)
        /\ \A u \in Range(jobUrls) :
              \E i \in DOMAIN s1Log :
                  s1Log[i].kind \in {"array", "mixed"} /\ u \in UrlsOf(s1Log[i])

\* the first chunk failed, the second one was submitted and gave candidates
C14_Witness ==
    /\ pc = "stage1" /\ nChunks = 2 /\ chunkIdx > nChunks
    /\ s1Log[1].kind \in {"throw", "auth", "text", "badjson"}
    /\ s1Log[2].kind = "array"
    /\ jobUrls # <<>>

\* a sequence without repetition
Injective(q) == \A i, j \in DOMAIN q : q[i] = q[j] => i = j

\* the postings this run has pushed to newJobs for company c, as URLs
PushedUrls(c) ==
    [i \in { j \in DOMAIN newJobs : newJobs[j]["company_id"] = c } |-> newJobs[i]["url"]]

(* C15: the candidates of a company are a set of normalized URLs: raw URLs *)
(* that normalize to one string give one candidate, and stage 2 handles    *)
(* each candidate once: it is fetched, extracted and written at most once  *)
(* in the run.                                                             *)
C15_OneCandidatePerUrl ==
    /\ Injective(jobUrls)
    /\ Injective(toProcess)
    /\ tpIdx <= Len(toProcess) + 1
    /\ \A c \in Companies :
          \A i, j \in DOMAIN PushedUrls(c) :
              PushedUrls(c)[i] = PushedUrls(c)[j] => i = j

\* the model named "http://Example.com/jobs/1/" and
\* "https://www.example.com/jobs/1": one candidate, one stage 2, one posting
C15_Witness ==
    /\ world.fixed /\ world.upsert = "done"
    /\ \E c \in Companies :
         /\ idx = c /\ pc = "page"
         /\ world.s1[<<c, 1>>] = S1Reply("array", <<UrlA, UrlB>>)
         /\ runs = 0
         /\ Len(toProcess) = 1 /\ tpIdx = 2
         /\ Cardinality(DOMAIN PushedUrls(c)) = 1
         /\ Cardinality(RowsOf(job_posts, c)) = 1

\* the URLs stored for company c when the run started
StoredUrls(c) == { storeAtStart[i]["url"] : i \in RowsOf(storeAtStart, c) }

(* C16: stage 2 handles only candidates that are not stored for the        *)
(* company: no candidate whose URL is already persisted for it is          *)
(* fetched, sent to the model or written.                                  *)
C16_KnownCandidateSkipped ==
    pc \in {"page", "stage2"} =>
        \A i \in DOMAIN toProcess : toProcess[i] \notin StoredUrls(idx)

RECURSIVE LastWith(_, _)
\* the index of the last of the answers log that is an object with key k, or 0
LastWith(log, k) ==
    IF log = <<>> THEN 0
    ELSE IF log[Len(log)].kind = "object" /\ k \in DOMAIN log[Len(log)].obj
         THEN Len(log)
         ELSE LastWith(SubSeq(log, 1, Len(log) - 1), k)

\* the keys of the objects among the answers log
KeysOf(log) ==
    UNION { DOMAIN log[i].obj : i \in { j \in DOMAIN log : log[j].kind = "object" } }

\* the answers received for the job page at hand in a fixed world
AnswersSoFar == SubSeq(world.s2, 1, chunkIdx - 1)

(* C17: the merged posting holds, for every key, the value of the last     *)
(* chunk whose object has that key; keys of earlier chunks are kept; a     *)
(* chunk whose call or parse failed changes nothing.                       *)
C17_LastWriteWins ==
    pc = "stage2" =>
        /\ DOMAIN assembled = KeysOf(AnswersSoFar)
        /\ \A k \in DOMAIN assembled :
              assembled[k] = AnswersSoFar[LastWith(AnswersSoFar, k)].obj[k]

\* {"title": "X", "location": "L"}, then a failed chunk or {"title": "Y"}:
\* title is that of the last object, location is kept
C17_Witness ==
    /\ pc = "stage2" /\ chunkIdx = 3
    /\ world.s2[1] = S2Reply("object", ObjXL)
    /\ world.s2[2] = S2Reply("object", ObjY)
    /\ assembled = [k \in {"title", "location"} |-> IF k = "title" THEN "Y" ELSE "L"]

\* sendMail has been called in this run
Notified == mail # "none"

(* C18: sendMail is called at most once in a run, after the loop over the  *)
(* companies has ended, and only when newJobs is not empty.                *)
C18_NotifyOnceAtEnd ==
    /\ [](Notified =>
            /\ pc = "done" /\ idx > NumCompanies
            /\ \A c \in Companies : ev[c] # {}
            /\ newJobs # <<>>)
    /\ [][Notified => (mail' = mail \/ (pc' = "idle" /\ mail' = "none"))]_vars

\* the mail of a run was sent
C18_Witness ==
    /\ mail = "sent" /\ pc = "done"
    /\ \E c \in Companies : "upsert" \in ev[c]

(* C19: every posting in newJobs, the payload of the run's mail, was       *)
(* written by this run: its key was not in the store when the run started  *)
(* and its row is in the store now.                                        *)
C19_PayloadIsNewlyPersisted ==
    \A i \in DOMAIN newJobs :
        /\ ~HasKey(storeAtStart, newJobs[i])
        /\ newJobs[i] \in Range(job_posts)

\* this step is a write that met a stored key
DupStep == idx \in Companies /\ "dup" \in ev'[idx] /\ "dup" \notin ev[idx]

(* C20: a write that meets a stored key is a no-op that counts as success: *)
(* the stored rows stay as they are, the loop goes on with the next        *)
(* candidate, the company's watermark is advanced and the run goes on.     *)
C20_ConflictIsNoOp ==
    /\ [](\A c \in Companies :
            "dup" \in ev[c] =>
                /\ InRun
                /\ SubSeq(job_posts, 1, Len(storeAtStart)) = storeAtStart
                /\ Passed(c) => WatermarkUpdated(c))
    /\ [][DupStep =>
            /\ job_posts' = job_posts
            /\ pc' = "page" /\ tpIdx' = tpIdx + 1 /\ idx' = idx]_vars

\* a write met a stored key for company 1, its watermark was advanced and
\* the run went on to stage 1 of company 2
C20_Witness ==
    /\ "dup" \in ev[1] /\ Passed(1) /\ WatermarkUpdated(1)
    /\ "model1" \in ev[2]

(* ----------------- splitIntoTokenChunks, on its own --------------------- *)
(* One call, for every text of up to MaxTokens tokens and every context    *)
(* window, prompt overhead and overlap within the bounds.                  *)

InitSplit ==
    /\ InitRun /\ world = FreeWorld
    /\ \A c \in Companies : companies[c].last_scraped = NULL
    /\ limiter = DefaultLimiter(StartTime) /\ InitCaller /\ InitCallers
    /\ \E n \in 0..MaxTokens, w \in 0..MaxWindow, o \in 0..MaxOverhead,
          v \in 0..MaxOverlap : split = SplitCall(n, w, o, v)
    /\ nu = NoUrl /\ api = NoApi /\ chat = NoChat /\ ov = NoOverlap /\ failed = {}

NextSplit == SplitStep \/ SplitReturn

SpecSplit == InitSplit /\ [][NextSplit]_vars

\* the loop runs as long as its condition holds
SpecSplitFair == SpecSplit /\ WF_vars(SplitStep) /\ WF_vars(SplitReturn)

\* C22: whenever contextWindow - promptOverhead <= 0, splitIntoTokenChunks
\* fails with a configuration error and produces no chunk: it pushes no
\* chunk and does not return normally.
C22_ConfigError ==
    (split.pc # "idle" /\ MaxPerChunk <= 0)
        => (split.chunks = <<>> /\ split.pc # "returned")

\* C23: whenever contextWindow - promptOverhead > 0, for every token
\* sequence and every overlap, splitIntoTokenChunks terminates and returns
\* a finite sequence of chunks (the same one each time it is called with
\* these arguments: the call has no other input).
\* The second conjunct is the part a finite run can refute: the loop's only
\* changing local is start, so an iteration that ends with the start it
\* began with is followed by the same iteration for ever.
C23_Terminates ==
    /\ (split.pc = "loop" /\ MaxPerChunk > 0) => <>(split.pc = "returned")
    /\ [][(MaxPerChunk > 0) => ~SameStartAgain]_vars

\* C24: every chunk holds at most contextWindow - promptOverhead tokens, so
\* that chunk tokens plus prompt overhead never exceed the context window,
\* and only the final chunk of the returned sequence is shorter than that.
C24_ChunkFitsWindow ==
    (split.pc = "returned" \/ (split.pc = "loop" /\ MaxPerChunk > 0)) =>
        \A i \in 1..Len(split.chunks) :
            /\ Len(split.chunks[i]) <= MaxPerChunk
            /\ Len(split.chunks[i]) + split.promptOverhead <= split.contextWindow
            /\ Len(split.chunks[i]) < MaxPerChunk
                   => (split.pc = "returned" /\ i = Len(split.chunks))

C24_Witness ==
    /\ split.pc = "returned" /\ Len(split.chunks) >= 2
    /\ Len(split.chunks[Len(split.chunks)]) < MaxPerChunk
    /\ split.promptOverhead > 0 /\ split.overlap > 0

\* the chunks in order, the first whole and each later one without its
\* first k tokens
RECURSIVE NonOverlap(_, _)
NonOverlap(chunks, k) ==
    IF Len(chunks) <= 1 THEN (IF chunks = <<>> THEN <<>> ELSE chunks[1])
    ELSE LET n == Len(chunks)
             last == chunks[n]
         IN  NonOverlap(SubSeq(chunks, 1, n - 1), k)
                 \o (IF k >= Len(last) THEN <<>>
                     ELSE SubSeq(last, k + 1, Len(last)))

\* C25: the first chunk whole and every later chunk without its leading
\* overlap tokens, concatenated in order, are the token sequence exactly;
\* every later chunk begins with exactly the last overlap tokens of the
\* chunk before it.
C25_ChunkCoverage ==
    split.pc = "returned" =>
        /\ NonOverlap(split.chunks, split.overlap) = split.tokens
        /\ \A i \in 2..Len(split.chunks) :
              LET prev == split.chunks[i - 1]
                  this == split.chunks[i]
              IN  /\ Len(prev) >= split.overlap /\ Len(this) >= split.overlap
                  /\ SubSeq(this, 1, split.overlap)
                       = SubSeq(prev, Len(prev) - split.overlap + 1, Len(prev))

C25_Witness ==
    /\ split.pc = "returned" /\ Len(split.chunks) >= 3
    /\ split.overlap = MaxOverlap
    /\ Len(split.tokens) = MaxTokens

(* ----------------------- normalizeUrl, checked -------------------------- *)

InitUrl ==
    /\ InitRun /\ world = FreeWorld
    /\ \A c \in Companies : companies[c].last_scraped = NULL
    /\ limiter = DefaultLimiter(StartTime) /\ InitCaller /\ InitCallers
    /\ split = NoSplit /\ api = NoApi /\ chat = NoChat /\ ov = NoOverlap /\ failed = {}
    /\ \E a \in UrlInputs : \E b \in Variants(a) :
          nu = [pc |-> "call", a |-> a, b |-> b, outA |-> a, outB |-> b,
                twice |-> a]

NextUrl == NormalizeOnce \/ NormalizeAgain

SpecUrl == InitUrl /\ [][NextUrl]_vars

\* C27: normalizeUrl is idempotent: for every input string, parseable as a
\* URL or not, normalizing the result again gives the same result.
C27_Idempotent == nu.pc = "twice" => nu.twice = nu.outA

\* C28: two URLs that differ only in scheme (http, https), a leading "www."
\* host label, query, fragment, repeated path separators, a trailing path
\* separator or letter case are mapped to the same string, and the root
\* path is normalized to "/".
C28_EquivalentUrlsAgree ==
    (nu.pc \in {"once", "twice"} /\ nu.a.form # "rel") =>
        /\ nu.outA = nu.outB
        /\ nu.a.path = <<>> => nu.outA.trail

(* ------------------- the parse-jobs handler, checked -------------------- *)
(* One GET request, for every combination of watermarks, with and without  *)
(* stored postings per company.                                            *)

InitApi ==
    /\ InitRun /\ world = FreeWorld
    /\ \A c \in Companies : companies[c].last_scraped = NULL
    /\ limiter = DefaultLimiter(StartTime) /\ InitCaller /\ InitCallers
    /\ split = NoSplit /\ nu = NoUrl /\ chat = NoChat /\ ov = NoOverlap /\ failed = {}
    /\ \E marks \in [Companies -> ApiWatermarks],
          stored \in SUBSET {JobRow(c, JobParsed(UrlN, 0)) : c \in Companies} :
          api = [pc |-> "request", status |-> 0, companies |-> marks,
                 job_posts |-> stored, stored |-> stored, snap |-> marks,
                 cutoff |-> 0, idx |-> 1, n |-> 0, chunk |-> 1, asked |-> {},
                 jobsAccumulator |-> <<>>, fetched |-> {}, called |-> {},
                 results |-> {}, considered |-> {}]

NextApi ==
    \/ HandlerRequest \/ HandlerFetch \/ HandlerChunk \/ HandlerInsert
    \/ HandlerRespond

SpecApi == InitApi /\ [][NextApi]_vars

\* C29: in the parse-jobs handler a Source whose last_scraped lies within
\* the one-hour cooldown is not fetched and causes no model call in that
\* cycle, whether or not the store holds postings for it.
C29_CooldownWithoutPostings ==
    api.pc \in {"loop", "chunks", "insert", "done"} =>
        \A c \in Companies :
            (api.snap[c] # NULL /\ api.snap[c] >= now - Cooldown)
                => (c \notin api.fetched /\ c \notin api.called)

\* C30: a model-call failure on one chunk of a Source does not abort the
\* extraction for that Source: when the chunk loop is left, every chunk of
\* the page has been submitted to the model.
C30_FailedChunkDoesNotAbort ==
    api.pc = "insert" => api.asked = 1..api.n

(* ------------- main() with splitIntoTokenChunks, checked ---------------- *)
(* Runs of main() in worlds that answer each kind of request the same way  *)
(* throughout: the context window the provider reports, the length of each *)
(* company's content and of the job pages, what the model answers in each  *)
(* stage, what the store does with an upsert.                              *)

\* cron.js:34-41  what getModelContextWindow may give: max_input_tokens of
\* the model, or the default
RunWindows == {PromptOverheadTokens, PromptOverheadTokens + ChunkOverlapTokens,
               PromptOverheadTokens + 2 * ChunkOverlapTokens, DefaultContextWindow}

\* the fetches: a rejection, an empty text, texts of 150 and 250 tokens
RunTexts == {Text(FALSE, 0), Text(TRUE, 0), Text(TRUE, 150), Text(TRUE, 250)}

RunWorlds ==
    { [fixed |-> TRUE, contextWindow |-> w, rawText |-> rr,
       s1 |-> [x \in Companies \X {1, 2} |-> r1], pageText |-> pp,
       s2 |-> [i \in 1..MaxChunks |-> r2], upsert |-> up] :
      w \in RunWindows, rr \in [Companies -> RunTexts],
      r1 \in {S1Reply("array", <<UrlA, UrlB>>), S1Reply("throw", <<>>),
              S1Reply("text", <<>>)},
      pp \in RunTexts \ {Text(TRUE, 150)},
      r2 \in {S2Reply("object", ObjX), S2Reply("throw", EmptyObj)},
      up \in {"done", "error", "throw"} }

InitMain ==
    /\ InitRun /\ world \in RunWorlds
    /\ limiter = DefaultLimiter(StartTime) /\ InitCaller /\ InitCallers
    /\ InitExt

NextMain ==
    \/ StartRun \/ SkipRecent \/ BeginSource \/ FetchRawText \/ SplitStep
    \/ SplitReturn \/ UrlChunksReady \/ Stage1Chunk \/ NoUrlsFound \/ NoNewJobs
    \/ BeginStage2 \/ FetchPageText \/ PageChunksReady \/ Stage2Chunk
    \/ Persist \/ SourceDone \/ Notify \/ Finish \/ Tick

SpecMain == InitMain /\ [][NextMain]_vars

\* every await of main() settles and the loops go on
SpecMainFair == SpecMain /\ WF_vars(NextMain)

\* C21: every run of the pipeline terminates after visiting every Source of
\* the list, whatever fetch, model-call, parse, page-fetch and insert
\* failures occur on the Sources: a run that has read the list reaches its
\* end, past the last Source.
\* The second conjunct is the part a finite run can refute: no call of
\* splitIntoTokenChunks made by the run repeats an iteration of its loop.
C21_RunTerminates ==
    /\ (pc = "loop" /\ idx = 1) ~> (pc = "done" /\ idx > NumCompanies)
    /\ [][(pc \in {"split", "pagesplit"}) => ~SameStartAgain]_vars

\* the content fetched for company c is the empty text
EmptyContent(c) == world.rawText[c] = Text(TRUE, 0)

\* C26: chunking an empty text gives zero chunks and no error, so a Source
\* whose fetched content is empty causes no stage-1 model call and takes
\* the path of a Source without candidate URLs.
C26_EmptyTextNoChunks ==
    /\ (split.pc # "idle" /\ split.tokens = <<>>) => split.chunks = <<>>
    /\ \A c \in Companies :
          (pc # "idle" /\ EmptyContent(c) /\ "fetch" \in ev[c]) =>
              /\ "model1" \notin ev[c]
              /\ "page" \notin ev[c]
              /\ c # idx => "nourls" \in ev[c]

C26_Witness ==
    /\ pc = "done"
    /\ \E c \in Companies : EmptyContent(c) /\ "nourls" \in ev[c]
    /\ \E c \in Companies : "model1" \in ev[c]

\* the rows of company c among rows
RowsFor(c, rows) == { r \in rows : r.company_id = c }

\* C31: in the parse-jobs handler the postings inserted for one Source in
\* one run hold at most one entry per normalized URL and none whose
\* normalized URL is already stored for that Source; of several parsed
\* entries with one URL the one of the latest chunk is inserted.
C31_OneInsertPerNormalizedUrl ==
    api.pc \in {"loop", "chunks", "insert", "done"} =>
        \A c \in Companies :
            /\ \A r, q \in RowsFor(c, api.results) :
                  normalizeUrl(r.url) = normalizeUrl(q.url) => r = q
            /\ \A r \in RowsFor(c, api.results), q \in RowsFor(c, api.stored) :
                  normalizeUrl(r.url) # normalizeUrl(q.url)
            /\ \A r \in RowsFor(c, api.results), q \in RowsFor(c, api.considered) :
                  q.url = r.url => q.chunk <= r.chunk


(* ---------------------- the chatOnce calls of a run --------------------- *)
(* cron.js:174 creates one RateLimiter; main() calls chatOnce at line 207   *)
(* (stage 1, once per chunk of the page) and at line 247 (stage 2, once per *)
(* chunk of a posting page), passing that limiter.  A rejected call is      *)
(* caught (lines 209, 249) and the loop goes on, so the calls of a run are  *)
(* fixed by the numbers of chunks.  The limiter is the variable limiter.    *)

\* <<stage-1 chunks, stage-2 chunks>> of one Source in a run
ChatPlans == {<<0, 0>>, <<1, 0>>, <<1, 1>>, <<2, 1>>}

\* encode(content).length of a prompt: the last one is above
\* maxTokensPerMinute (a chunk cut for a context window of 131072 tokens)
ChatSizes == {400, 6000, 12000}

\* the clock of SpecChat stops here
HorizonChat == StartTime + 2 * WindowMs

\* n times the element x
Repeat(x, n) == [i \in 1..n |-> x]

RECURSIVE Sites(_, _)
\* cron.js:184-252  the call sites main() passes, in order, from Source c on
Sites(plan, c) ==
    IF c \notin Companies THEN <<>>
    ELSE Repeat([stage |-> 1, company |-> c], plan[c][1])
             \o Repeat([stage |-> 2, company |-> c], plan[c][2])
             \o Sites(plan, c + 1)

\* history: what call number chat.call does next
Event(e) == [call |-> chat.call, site |-> chat.sites[chat.call], ev |-> e]

\* cron.js:174  const limiter = new RateLimiter()
ChatRunStart ==
    /\ chat.pc = "start"
    /\ limiter' = DefaultLimiter(now)
    /\ chat' = [chat EXCEPT !.pc = IF chat.sites = <<>> THEN "done" ELSE "site"]
    /\ UNCHANGED <<now, split, nu, api, ov, failed>>
    /\ UNCHANGED <<companies, job_posts, pc, runs, cutoff, snap, idx, nChunks,
                   chunkIdx, jobUrls, toProcess, tpIdx, assembled, newJobs,
                   mail, world, ev, authAt, storeAtStart, prevFull, s1Log, lpc,
                   tokensNeeded, wake, issued, wsLog, chatLog, callers, gap>>

\* all but now, limiter and chat
chatRest == <<companies, job_posts, pc, runs, cutoff, snap, idx, nChunks,
              chunkIdx, jobUrls, toProcess, tpIdx, assembled, newJobs, mail,
              world, ev, authAt, storeAtStart, prevFull, s1Log, lpc,
              tokensNeeded, wake, issued, wsLog, chatLog, callers, gap,
              split, nu, api, ov, failed>>

\* cron.js:101-108  the while loop of waitTurn is entered at time t by the
\* call c (a chat record): it sleeps 100 ms or waitTurn returns
ChatLoop(c, l, t) ==
    IF MustWait(l, c.need)
    THEN [c EXCEPT !.pc = "poll", !.wake = t + PollMs]
    ELSE [c EXCEPT !.pc = "turn", !.log = Append(@, Event("turn"))]

\* cron.js:207, 247, 119-121, 94-100  main() is at a call site: chatOnce
\* estimates the tokens and calls waitTurn on the limiter it was given
ChatOnce ==
    /\ chat.pc = "site"
    /\ \E n \in ChatSizes :
         LET c == [chat EXCEPT !.need = n, !.log = Append(@, Event("waitTurn"))]
         IN  /\ limiter' = resetIfNeeded(limiter, now)
             /\ chat' = IF IntervalLeft(limiter', now) > 0
                        THEN [c EXCEPT !.pc = "sleep",
                                       !.wake = now + IntervalLeft(limiter', now)]
                        ELSE ChatLoop(c, limiter', now)
    /\ UNCHANGED <<now, chatRest>>

\* cron.js:99-100  the interval timer fires
ChatIntervalElapsed ==
    /\ chat.pc = "sleep" /\ chat.wake <= HorizonChat
    /\ now' = chat.wake
    /\ chat' = ChatLoop(chat, limiter, chat.wake)
    /\ UNCHANGED <<limiter, chatRest>>

\* cron.js:105-106  the polling timer fires
ChatPollElapsed ==
    /\ chat.pc = "poll" /\ chat.wake <= HorizonChat
    /\ now' = chat.wake
    /\ limiter' = resetIfNeeded(limiter, chat.wake)
    /\ chat' = ChatLoop(chat, limiter', chat.wake)
    /\ UNCHANGED chatRest

\* a variant of lines 122-124 that sends the request without recording it
ChatCreateUnrecorded ==
    /\ chat.pc = "turn"
    /\ chat' = [chat EXCEPT !.pc = "created", !.log = Append(@, Event("create"))]
    /\ UNCHANGED <<now, limiter, chatRest>>

\* cron.js:122-127  after waitTurn: limiter.record, then create() is called
ChatRecordCreate ==
    /\ chat.pc = "turn"
    /\ limiter' = record(limiter, chat.need, now)
    /\ chat' = [chat EXCEPT !.pc = "created",
                            !.log = @ \o <<Event("record"), Event("create")>>]
    /\ UNCHANGED <<now, chatRest>>

\* cron.js:124-131, 208-212, 248-252  create() resolves or rejects, chatOnce
\* returns or throws, and main() goes on to the next call site
ChatAnswered ==
    /\ chat.pc = "created"
    /\ chat' = [chat EXCEPT !.pc = IF chat.call = Len(chat.sites) THEN "done" ELSE "site",
                            !.call = IF chat.call = Len(chat.sites) THEN @ ELSE @ + 1]
    /\ UNCHANGED <<now, limiter, chatRest>>

InitChat ==
    /\ InitRun /\ world = FreeWorld
    /\ \A c \in Companies : companies[c].last_scraped = NULL
    /\ limiter = DefaultLimiter(0) /\ InitCaller /\ InitCallers
    /\ split = NoSplit /\ nu = NoUrl /\ api = NoApi /\ ov = NoOverlap
    /\ failed = {}
    /\ \E plan \in [Companies -> ChatPlans] :
          chat = [pc |-> "start", sites |-> Sites(plan, 1), call |-> 1,
                  need |-> 0, wake |-> 0, log |-> <<>>]

NextChat ==
    \/ ChatRunStart \/ ChatOnce \/ ChatIntervalElapsed \/ ChatPollElapsed
    \/ ChatRecordCreate \/ ChatAnswered

SpecChat == InitChat /\ [][NextChat]_vars

\* the events of call number k, in order
CallEvents(k) ==
    LET RECURSIVE Of(_)
        Of(log) == IF log = <<>> THEN <<>>
                   ELSE IF log[1].call = k THEN <<log[1].ev>> \o Of(Tail(log))
                   ELSE Of(Tail(log))
    IN  Of(chat.log)

\* C32: in the cron pipeline every model request, of stage 1 and of stage
\* 2 and of every Source, goes through the RateLimiter created at the start
\* of the run: a completed waitTurn on it precedes the request and exactly
\* one record on it matches the request.
C32_OneLimiterForAllRequests ==
    chat.pc \notin {"idle", "start"} =>
        /\ \A k \in 1..Len(chat.sites) :
              "create" \in Range(CallEvents(k)) =>
                  CallEvents(k) = <<"waitTurn", "turn", "record", "create">>
        /\ (chat.pc = "created" =>
              /\ limiter.lastRequestTime = now
              /\ limiter.requestsThisMinute >= 1
              /\ limiter.tokensThisMinute >= chat.need
              /\ limiter.tokensThisMinute <= limiter.maxTokensPerMinute
              /\ limiter.requestsThisMinute <= limiter.maxRequestsPerMinute)

\* requests of stage 1 and of stage 2, for two Sources, have been sent
C32_Witness ==
    /\ chat.pc = "done"
    /\ \A c \in Companies, st \in {1, 2} :
          \E i \in DOMAIN chat.log :
              /\ chat.log[i].ev = "create"
              /\ chat.log[i].site = [stage |-> st, company |-> c]


\* the rows the step adds to job_posts
RowsAdded == { job_posts'[i] : i \in DOMAIN job_posts' \ DOMAIN job_posts }

\* C35: the url, company_id and company_name of every posting the cron
\* pipeline writes are the normalized candidate URL and the Source being
\* processed, whatever keys the model's objects held.
C35_IdentityFromPipeline ==
    [][\A r \in RowsAdded :
          /\ r["url"] = toProcess[tpIdx]
          /\ r["url"] \in Range(jobUrls)
          /\ r["company_id"] = idx
          /\ r["company_name"] = idx]_vars

\* a posting was written whose last model object held url, company_id and
\* company_name keys
C35_Witness ==
    \E i \in DOMAIN job_posts :
        /\ "title" \in DOMAIN job_posts[i]
        /\ job_posts[i]["title"] = "U"
        /\ job_posts[i]["company_id"] = 1
        /\ job_posts[i]["url"] = normalizeUrl(UrlA)


(* ------------------------- the store across runs ------------------------ *)
(* Two Sources whose pages list the same postings, two runs of main() a     *)
(* cooldown apart, no failure of fetch or of the store; the stage-1 answer  *)
(* and the stage-2 answer vary.                                             *)

StoreWorlds ==
    { [fixed |-> TRUE,
       raw |-> [c \in Companies |-> Fetched(TRUE, 1)],
       s1 |-> [x \in Companies \X {1, 2} |-> first],
       page |-> Fetched(TRUE, n), s2 |-> [i \in 1..MaxChunks |-> answer],
       upsert |-> "done"] :
      first \in {S1Reply("array", <<UrlA, UrlB>>), S1Reply("array", <<UrlC>>)},
      n \in 1..MaxChunks,
      answer \in {S2Reply("object", ObjX), S2Reply("object", ObjU),
                  S2Reply("throw", EmptyObj)} }

InitStore ==
    /\ InitRun /\ world \in StoreWorlds
    /\ limiter = DefaultLimiter(StartTime) /\ InitCaller /\ InitCallers /\ InitExt

NextStore ==
    \/ StartRun \/ SkipRecent \/ BeginSource \/ FetchRaw \/ Stage1Chunk
    \/ NoNewJobs \/ BeginStage2 \/ FetchPage \/ Stage2Chunk \/ Persist
    \/ SourceDone \/ Notify \/ Finish \/ Tick

SpecStore == InitStore /\ [][NextStore]_vars

\* the store holds a posting of Source c whose normalized url is u
Stored(c, u) ==
    \E i \in DOMAIN job_posts :
        job_posts[i]["company_id"] = c /\ normalizeUrl(job_posts[i]["url"]) = u

\* the step is the upsert of line 262 (the store applies every write here)
Upserts == pc = "stage2" /\ pc' = "page"

\* C33: deduplication is per Source: a URL stored for Source A is still new
\* for Source B and is inserted for B; one normalized URL can be stored
\* once per Source.
C33_DedupPerSource ==
    /\ [][(pc = "stage1" /\ pc' # "stage1") =>
             \A u \in Range(jobUrls) :
                 ~Stored(idx, u) => pc' = "page" /\ u \in Range(toProcess')]_vars
    /\ [][Upserts =>
             \E i \in DOMAIN job_posts' :
                 /\ job_posts'[i]["company_id"] = idx
                 /\ job_posts'[i]["url"] = toProcess[tpIdx]]_vars
    /\ [](\A i, j \in DOMAIN job_posts :
             (/\ job_posts[i]["company_id"] = job_posts[j]["company_id"]
              /\ job_posts[i]["url"] = job_posts[j]["url"]) => i = j)

\* the same URL is stored for Source 1 and, after it, for Source 2
C33_Witness ==
    \E i, j \in DOMAIN job_posts :
        /\ i < j
        /\ job_posts[i]["company_id"] = 1 /\ job_posts[j]["company_id"] = 2
        /\ job_posts[i]["url"] = job_posts[j]["url"]


\* the step changes no row the store holds
RowsKept ==
    /\ Len(job_posts') >= Len(job_posts)
    /\ \A i \in DOMAIN job_posts : job_posts'[i] = job_posts[i]

\* C36: once a posting with key (company_id, url) is stored, no later run
\* of the cron pipeline changes any of its fields (title, posted_date,
\* seen_at included), also when it was stored with no extracted field
\* because every stage-2 chunk failed.
C36_StoredPostingKept == [][RowsKept]_vars

\* a later run has written a posting with the key of a stored one that has
\* no extracted field
C36_Witness ==
    /\ runs = 1 /\ "dup" \in ev[1]
    /\ \E i \in DOMAIN job_posts :
          /\ job_posts[i]["company_id"] = 1
          /\ DOMAIN job_posts[i] = {"url", "company_id", "company_name", "seen_at"}
          /\ job_posts[i]["seen_at"] < now


(* ------------------- job pages that cannot be fetched ------------------- *)
(* main() with the history of the job pages whose fetch failed, in worlds   *)
(* where a page can or cannot be fetched, in every run.                     *)

RetryWorlds ==
    { [fixed |-> TRUE,
       raw |-> [c \in Companies |-> Fetched(TRUE, 1)],
       s1 |-> [x \in Companies \X {1, 2} |-> IF x[2] = 1 THEN first ELSE second],
       page |-> Fetched(TRUE, 1), pages |-> pp,
       s2 |-> [i \in 1..MaxChunks |-> S2Reply("object", ObjX)],
       upsert |-> up] :
      first, second \in {S1Reply("array", <<UrlA, UrlB>>), S1Reply("array", <<UrlC>>),
                        S1Reply("array", <<UrlA, UrlC>>)},
      pp \in [NormUrls -> {Fetched(FALSE, 0), Fetched(TRUE, 1)}],
      up \in {"done", "error", "throw"} }

InitRetry ==
    /\ InitRun /\ world \in RetryWorlds
    /\ limiter = DefaultLimiter(StartTime) /\ InitCaller /\ InitCallers /\ InitExt

NextRetry ==
    \/ StartRun \/ SkipRecent \/ BeginSource \/ FetchRaw \/ Stage1Chunk
    \/ NoNewJobs \/ BeginStage2 \/ FetchPageNoting
    \/ Stage2Chunk \/ Persist \/ SourceDone \/ Notify \/ Finish \/ Tick

SpecRetry == InitRetry /\ [][NextRetry]_vars


\* the store holds a posting with the key (c, u)
Written(c, u) ==
    \E i \in DOMAIN job_posts :
        job_posts[i]["company_id"] = c /\ job_posts[i]["url"] = u

\* the step is a fetch of a job page that failed
PageFetchFails == failed' # failed

\* C37: when the fetch of the page of a new candidate URL fails in stage 2,
\* no posting is written or reported for the URL, the other candidates of
\* the Source are still processed, the Source's watermark is still
\* advanced, and the URL is a new candidate again in the next cycle in
\* which the Source is eligible.
C37_FailedPageRetried ==
    /\ [][PageFetchFails =>
             /\ job_posts' = job_posts /\ newJobs' = newJobs
             /\ pc' = "page" /\ idx' = idx /\ toProcess' = toProcess
             /\ tpIdx' = tpIdx + 1]_vars
    /\ [][(pc = "page" /\ pc' \notin {"page", "stage2"}) =>
             /\ tpIdx > Len(toProcess)
             /\ companies'[idx].last_scraped = now]_vars
    /\ [][(pc = "stage1" /\ pc' # "stage1") =>
             \A u \in Range(jobUrls) :
                 (<<idx, u>> \in failed /\ ~Written(idx, u)) =>
                     pc' = "page" /\ u \in Range(toProcess')]_vars


\* timers fire and the calls go on
SpecChatFair == SpecChat /\ WF_vars(NextChat)

\* waitTurn is waiting
Waiting == chat.pc \in {"sleep", "poll"}

\* C34: every call waitTurn(tokensNeeded) returns as time advances, also
\* for an estimate above maxTokensPerMinute; in particular no call waits in
\* a window in which nothing has been recorded.
C34_WaitTurnReturns ==
    /\ Waiting ~> chat.pc = "turn"
    /\ [](chat.pc = "poll" =>
             limiter.tokensThisMinute > 0 \/ limiter.requestsThisMinute > 0)


(* -------------------------- two runs that overlap ----------------------- *)
(* The workflow starts main() on a schedule and on manual dispatch and has  *)
(* no concurrency group (daily-cron.yml:3-6), so two processes can run      *)
(* main() at once against the same tables companies and job_posts.  Each    *)
(* run has its own locals; every await is a point where the other run may   *)
(* take steps.  The page of every Source lists the posting UrlA, every      *)
(* fetch and model call succeeds, the store applies every write.            *)

OvRuns == {1, 2}

\* the locals of one run of main()
OvLocals ==
    [pc |-> "idle", snap |-> [c \in Companies |-> NULL], idx |-> 1,
     toProcess |-> <<>>, tpIdx |-> 1, newJobs |-> <<>>, mail |-> <<>>]

\* all but companies, job_posts and ov
ovRest == <<now, pc, runs, cutoff, snap, idx, nChunks, chunkIdx, jobUrls,
            toProcess, tpIdx, assembled, newJobs, mail, world, ev, authAt,
            storeAtStart, prevFull, s1Log, limiter, lpc, tokensNeeded, wake,
            issued, wsLog, chatLog, callers, gap, split, nu, api, chat, failed>>

\* cron.js:177-182  run r reads the companies
OvStart(r) ==
    /\ ov[r].pc = "idle"
    /\ ov' = [ov EXCEPT ![r].pc = "loop",
                        ![r].snap = [c \in Companies |-> companies[c].last_scraped]]
    /\ UNCHANGED <<companies, job_posts, ovRest>>

\* cron.js:185  c.last_scraped && c.last_scraped >= cutoff, for run r
OvRecent(r, c) == ov[r].snap[c] # NULL /\ ov[r].snap[c] >= now - Cooldown

\* cron.js:184-228  run r is at the next company: it skips it, or it gets
\* the candidates, reads the stored urls and keeps the new ones; with none
\* it advances the watermark
OvFilter(r) ==
    /\ ov[r].pc = "loop" /\ ov[r].idx \in Companies
    /\ LET c    == ov[r].idx
           urls == AddAll(<<>>, <<UrlA>>)
           new  == Filter(urls, Range(urls) \ SeenSet(c))
       IN  IF OvRecent(r, c)
           THEN /\ ov' = [ov EXCEPT ![r].idx = c + 1]
                /\ UNCHANGED companies
           ELSE IF new = <<>>
           THEN /\ ov' = [ov EXCEPT ![r].idx = c + 1]
                /\ companies' = UpdateLastScraped(c)
           ELSE /\ ov' = [ov EXCEPT ![r].pc = "stage2", ![r].toProcess = new,
                                    ![r].tpIdx = 1]
                /\ UNCHANGED companies
    /\ UNCHANGED <<job_posts, ovRest>>

\* cron.js:230-271  run r assembles the posting of the next new URL,
\* upserts it and pushes it to newJobs
OvPersist(r) ==
    /\ ov[r].pc = "stage2" /\ ov[r].tpIdx <= Len(ov[r].toProcess)
    /\ LET row == ObjectAssign(ObjX, Identity(ov[r].idx, ov[r].toProcess[ov[r].tpIdx]))
       IN  /\ job_posts' = Upsert(job_posts, row)
           /\ ov' = [ov EXCEPT ![r].tpIdx = @ + 1,
                               ![r].newJobs = Append(@, row)]
    /\ UNCHANGED <<companies, ovRest>>

\* cron.js:273-275  run r advances the watermark of the company
OvSourceDone(r) ==
    /\ ov[r].pc = "stage2" /\ ov[r].tpIdx > Len(ov[r].toProcess)
    /\ companies' = UpdateLastScraped(ov[r].idx)
    /\ ov' = [ov EXCEPT ![r].pc = "loop", ![r].idx = @ + 1,
                        ![r].toProcess = <<>>, ![r].tpIdx = 1]
    /\ UNCHANGED <<job_posts, ovRest>>

\* cron.js:277-297  run r mails its newJobs, if any, and ends
OvNotify(r) ==
    /\ ov[r].pc = "loop" /\ ov[r].idx \notin Companies
    /\ ov' = [ov EXCEPT ![r].pc = "done", ![r].mail = ov[r].newJobs]
    /\ UNCHANGED <<companies, job_posts, ovRest>>

InitOverlap ==
    /\ InitRun /\ world = FreeWorld
    /\ limiter = DefaultLimiter(StartTime) /\ InitCaller /\ InitCallers
    /\ split = NoSplit /\ nu = NoUrl /\ api = NoApi /\ chat = NoChat
    /\ failed = {}
    /\ ov = [r \in OvRuns |-> OvLocals]

NextOverlap ==
    \E r \in OvRuns :
        \/ OvStart(r) \/ OvFilter(r) \/ OvPersist(r) \/ OvSourceDone(r)
        \/ OvNotify(r)

SpecOverlap == InitOverlap /\ [][NextOverlap]_vars

\* the keys of the postings in the mail of run r
MailKeys(r) ==
    { <<ov[r].mail[i]["company_id"], ov[r].mail[i]["url"]>> : i \in DOMAIN ov[r].mail }

\* C38: when two runs of the cron pipeline overlap against the same store,
\* in every interleaving each (company_id, url) posting is stored at most
\* once and is in the notification of at most one of the two runs.
C38_OverlappingRuns ==
    /\ \A i, j \in DOMAIN job_posts :
          (/\ job_posts[i]["company_id"] = job_posts[j]["company_id"]
           /\ job_posts[i]["url"] = job_posts[j]["url"]) => i = j
    /\ MailKeys(1) \cap MailKeys(2) = {}


\* the rows of job_posts that are not of company c
RowsNotOf(rows, c) ==
    LET keep == { r \in Range(rows) : r["company_id"] # c } IN Filter(rows, keep)

\* C39: processing one Source changes only that Source's watermark and the
\* postings whose company_id is that Source; no watermark ever moves
\* backwards.
C39_OnlyOwnSourceChanged ==
    /\ [][(idx \in Companies) =>
             /\ \A c \in Companies \ {idx} : companies'[c] = companies[c]
             /\ RowsNotOf(job_posts', idx) = RowsNotOf(job_posts, idx)]_vars
    /\ [][\A c \in Companies :
             companies'[c].last_scraped >= companies[c].last_scraped]_vars
    /\ [][idx \notin Companies => UNCHANGED <<companies, job_posts>>]_vars

\* the second Source was processed and its watermark advanced in a second
\* cycle, while postings of the first Source were stored
C39_Witness ==
    /\ runs = 1 /\ idx = 2 /\ pc = "loop"
    /\ \E i \in DOMAIN job_posts : job_posts[i]["company_id"] = 1
    /\ \E i \in DOMAIN job_posts : job_posts[i]["company_id"] = 2
    /\ companies[1].last_scraped = now /\ now > StartTime

====
